---- MODULE Spec2Model ----
(***************************************************************************)
(* Discipline classification and model lifecycle of                        *)
(* wildlife-grad-dashboard.                                                *)
(*                                                                         *)
(*   scripts/retrain_discipline_model.py        trainer / promoter         *)
(*   scripts/import_discipline_queue_reviews.py review import              *)
(*   scripts/generate_dashboard_analytics.py    batch classification       *)
(*   src/wildlife_grad/analysis/enhanced_analysis.py                       *)
(*                                              detector and classifier    *)
(*                                                                         *)
(* The module holds several specifications over one set of variables:      *)
(*   Spec          sequences of trainer runs (main of the trainer) and     *)
(*                 classifier loads of the promoted model                  *)
(*   SpecDecision  promotion_decision applied to drawn inputs              *)
(*   SpecGrad      GraduatePositionDetector.is_graduate_position           *)
(*   SpecGold      operations on the gold label store                      *)
(*   SpecPipeline  sanitize_and_classify_positions, one posting of a batch *)
(* A specification leaves the variables of the other parts at their idle   *)
(* values.                                                                 *)
(*                                                                         *)
(* Numbers: metrics and thresholds of the trainer are counted in units of  *)
(* 0.005 (the default --min-macro-f1-improvement); confidences of the      *)
(* detector and of the classifier tiers are counted in hundredths.         *)
(***************************************************************************)
EXTENDS Integers, Sequences, FiniteSets, TLC

VARIABLES
    \* ---- trainer (retrain_discipline_model.py) and the files it writes
    pc,         \* position of the trainer's main()
    run,        \* locals of the running main()
    clock,      \* wall clock, in seconds (datetime.now() at second resolution)
    stamp,      \* number of timestamps taken at full resolution (now_iso())
    artifacts,  \* models/discipline_model_<id>.pkl: model_id -> content
    manifest,   \* manifest.json: promoted pointer and history
    report,     \* latest_training_report.json
    qmodel,     \* artifact the trainer's confidence queue was built with
    clf,        \* a DisciplineClassifier instance: its cached promoted model
    \* ---- promotion_decision on drawn inputs
    dec,
    \* ---- GraduatePositionDetector on one posting
    grad,
    \* ---- gold label store (discipline_labels_gold.json)
    gold,
    \* ---- sanitize_and_classify_positions on one posting of a batch
    pipe,
    \* ---- the trainer's assembly of gold and pseudo-labelled examples
    assembly,
    \* ---- the confidence queue builders on a batch of rows
    queue,
    \* ---- one review import (import_discipline_queue_reviews.py)
    review,
    \* ---- one DisciplineClassifier instance and the model files it reads
    loader,
    \* ---- sanitize_and_classify_positions on a whole batch of rows
    batch,
    \* ---- update_manifest applied to a manifest with a long history
    ledger,
    \* ---- one batch classified twice over the same model files
    rerun,
    \* ---- the evaluation strategy chosen for a gold set
    evaluation

trainerVars == <<pc, run, clock, stamp, artifacts, manifest, report, qmodel, clf>>
vars == <<pc, run, clock, stamp, artifacts, manifest, report, qmodel, clf,
          dec, grad, gold, pipe, assembly, queue, review,
          loader, batch, ledger, rerun, evaluation>>

\* Optional values (Python None / a value) are sequences of length 0 or 1.
None == <<>>
Some(x) == <<x>>
IsSome(o) == o # <<>>
Get(o) == o[1]

Min(a, b) == IF a <= b THEN a ELSE b
Max(a, b) == IF a >= b THEN a ELSE b
Abs(a) == IF a >= 0 THEN a ELSE -a

-----------------------------------------------------------------------------
(* Bounds of the model *)

\* trainer runs in one behaviour
MaxRuns == 2
\* seconds the wall clock may advance
MaxClock == 1
\* largest metric value promotion_decision is applied to (units of 0.005)
MaxMetric == 2

-----------------------------------------------------------------------------
(* Trainer: scripts/retrain_discipline_model.py *)

\* parse_args: --min-macro-f1-improvement default 0.005 (one unit)
DefaultMinMacroF1Improvement == 1
\* parse_args: --min-accuracy-improvement default 0.0
DefaultMinAccuracyImprovement == 0
\* values a threshold argument is drawn from; argparse type=float accepts
\* negative numbers as well
ThresholdValues ==
    {-2, DefaultMinAccuracyImprovement, DefaultMinMacroF1Improvement}

\* metrics of a candidate or of the promoted model, as passed to
\* promotion_decision
MetricValues == 0..MaxMetric
Metrics == [macro_f1 : MetricValues, accuracy : MetricValues]

\* validation results drawn for the candidate of a trainer run: a macro-F1
\* equal to, one unit or two units above the lowest, and two accuracies
RunMacroF1Values == {0, 1, 2}
RunAccuracyValues == {0, 1}
RunMetrics == [macro_f1 : RunMacroF1Values, accuracy : RunAccuracyValues]

\* main: the metrics dict before any training
NotTrainedMetrics == [macro_f1 |-> 0, accuracy |-> 0]

\* classes the gold labels of a run are drawn from
GoldClasses == {"Wildlife", "Entomology"}
\* rows a class has in the gold file of a run: none, one (a rare class),
\* and enough for cross-validation (4 + 4) or for a holdout split (4 + 8)
GoldCountValues == {0, 1, 4, 8}
GoldCounters == [GoldClasses -> GoldCountValues]

RECURSIVE SumOver(_, _)
SumOver(f, S) ==
    IF S = {} THEN 0
    ELSE LET x == CHOOSE y \in S : TRUE IN f[x] + SumOver(f, S \ {x})

\* filter_rare_gold_classes(min_count=2): the per-class counts that are kept;
\* a class below min_count loses all its rows
filter_rare_gold_classes(counts, min_count) ==
    [c \in DOMAIN counts |-> IF counts[c] >= min_count THEN counts[c] ELSE 0]

\* Counter(gold_labels): the classes present after filtering
GoldCounterClasses(counts) == {c \in DOMAIN counts : counts[c] > 0}
GoldTotal(counts) == SumOver(counts, DOMAIN counts)

\* main: trainable = len(gold_labels) >= 8 and len(gold_counter) >= 2
MinGoldTotal == 8
MinGoldClasses == 2
\* variant: either condition is enough
Trainable_either(counts) ==
    \/ GoldTotal(counts) >= MinGoldTotal
    \/ Cardinality(GoldCounterClasses(counts)) >= MinGoldClasses

Trainable(counts) ==
    /\ GoldTotal(counts) >= MinGoldTotal
    /\ Cardinality(GoldCounterClasses(counts)) >= MinGoldClasses

\* main: holdout when every class has >= 2 rows and there are >= 12 rows,
\* cross-validation otherwise
HoldoutMinTotal == 12
EvaluationMode(counts) ==
    LET present == GoldCounterClasses(counts)
        min_class_count ==
            CHOOSE m \in {counts[c] : c \in present} :
                \A c \in present : m <= counts[c]
    IN IF min_class_count >= 2 /\ GoldTotal(counts) >= HoldoutMinTotal
       THEN "holdout" ELSE "cross_validation"

\* variant: the macro_f1_improved branch is missing
promotion_decision_no_macro_branch(new_metrics, old_metrics, min_macro_f1_improvement, min_accuracy_improvement, force_promote) ==
    IF force_promote THEN [promote |-> TRUE, reason |-> "force_promote"]
    ELSE IF ~IsSome(old_metrics)
    THEN [promote |-> TRUE, reason |-> "first_promoted_model"]
    ELSE IF /\ Abs(new_metrics.macro_f1 - Get(old_metrics).macro_f1)
                  <= min_macro_f1_improvement
            /\ new_metrics.accuracy
                  > Get(old_metrics).accuracy + min_accuracy_improvement
    THEN [promote |-> TRUE,
          reason |-> "accuracy_improved_with_stable_macro_f1"]
    ELSE [promote |-> FALSE, reason |-> "validation_not_improved"]

\* variant: the macro-F1 gain is taken by its absolute value
promotion_decision_abs_gain(new_metrics, old_metrics, min_macro_f1_improvement, min_accuracy_improvement, force_promote) ==
    IF force_promote THEN [promote |-> TRUE, reason |-> "force_promote"]
    ELSE IF ~IsSome(old_metrics)
    THEN [promote |-> TRUE, reason |-> "first_promoted_model"]
    ELSE IF Abs(new_metrics.macro_f1 - Get(old_metrics).macro_f1)
               > min_macro_f1_improvement
    THEN [promote |-> TRUE, reason |-> "macro_f1_improved"]
    ELSE IF /\ Abs(new_metrics.macro_f1 - Get(old_metrics).macro_f1)
                  <= min_macro_f1_improvement
            /\ new_metrics.accuracy
                  > Get(old_metrics).accuracy + min_accuracy_improvement
    THEN [promote |-> TRUE,
          reason |-> "accuracy_improved_with_stable_macro_f1"]
    ELSE [promote |-> FALSE, reason |-> "validation_not_improved"]

\* variant: the accuracy branch does not ask for a stable macro-F1
promotion_decision_accuracy_only(new_metrics, old_metrics, min_macro_f1_improvement, min_accuracy_improvement, force_promote) ==
    IF force_promote THEN [promote |-> TRUE, reason |-> "force_promote"]
    ELSE IF ~IsSome(old_metrics)
    THEN [promote |-> TRUE, reason |-> "first_promoted_model"]
    ELSE IF new_metrics.macro_f1
               > Get(old_metrics).macro_f1 + min_macro_f1_improvement
    THEN [promote |-> TRUE, reason |-> "macro_f1_improved"]
    ELSE IF new_metrics.accuracy
               > Get(old_metrics).accuracy + min_accuracy_improvement
    THEN [promote |-> TRUE,
          reason |-> "accuracy_improved_with_stable_macro_f1"]
    ELSE [promote |-> FALSE, reason |-> "validation_not_improved"]

\* promotion_decision, lines 645-669; old_metrics is None or the promoted
\* entry's metrics
promotion_decision(new_metrics, old_metrics, min_macro_f1_improvement, min_accuracy_improvement, force_promote) ==
    IF force_promote THEN [promote |-> TRUE, reason |-> "force_promote"]
    ELSE IF ~IsSome(old_metrics)
    THEN [promote |-> TRUE, reason |-> "first_promoted_model"]
    ELSE LET new_macro == new_metrics.macro_f1
             old_macro == Get(old_metrics).macro_f1
             new_acc == new_metrics.accuracy
             old_acc == Get(old_metrics).accuracy
         IN IF new_macro > old_macro + min_macro_f1_improvement
            THEN [promote |-> TRUE, reason |-> "macro_f1_improved"]
            ELSE IF /\ Abs(new_macro - old_macro) <= min_macro_f1_improvement
                    /\ new_acc > old_acc + min_accuracy_improvement
            THEN [promote |-> TRUE,
                  reason |-> "accuracy_improved_with_stable_macro_f1"]
            ELSE [promote |-> FALSE, reason |-> "validation_not_improved"]

\* save_artifact: model_id = datetime.now().strftime("%Y%m%d_%H%M%S"), the
\* wall clock at second resolution
ModelId(now_seconds, now_full) == now_seconds

\* save_artifact: artifact_path = models/discipline_model_<model_id>.pkl;
\* a path is identified with the model_id in its name
ArtifactPath(model_id) == model_id
ModelIds == 0..MaxClock

\* save_artifact: the pickled bundle (vectorizer and classifier are
\* represented by trained_at, the run that fitted them) and its metadata
ArtifactBundle(model_id, trained_at, metrics) ==
    [model_id |-> model_id, trained_at |-> trained_at, metrics |-> metrics]

CandidateMetadata(model_id, trained_at, metrics) ==
    [model_id |-> model_id, trained_at |-> trained_at,
     artifact_path |-> ArtifactPath(model_id), metrics |-> metrics]

\* update_manifest: history = history[-100:]
HistoryCap == 100
LastN(s, n) ==
    IF Len(s) <= n THEN s ELSE SubSeq(s, Len(s) - n + 1, Len(s))

ManifestEvent(timestamp, metadata, promote, reason) ==
    [timestamp |-> timestamp,
     status |-> IF promote THEN "promoted" ELSE "candidate_rejected",
     reason |-> reason,
     model_id |-> metadata.model_id,
     artifact_path |-> metadata.artifact_path,
     metrics |-> metadata.metrics]

PromotedEntry(metadata) ==
    [model_id |-> metadata.model_id,
     artifact_path |-> metadata.artifact_path,
     metrics |-> metadata.metrics]

\* variant: the promoted pointer moves whatever the decision
update_manifest_always_promote(m, metadata, promote, reason, timestamp) ==
    [promoted |-> Some(PromotedEntry(metadata)),
     history |->
        LastN(Append(m.history,
                     ManifestEvent(timestamp, metadata, promote, reason)),
              HistoryCap)]

\* variant: the oldest HistoryCap events are kept
update_manifest_keep_oldest(m, metadata, promote, reason, timestamp) ==
    [promoted |-> IF promote THEN Some(PromotedEntry(metadata))
                  ELSE m.promoted,
     history |->
        LET appended == Append(m.history,
                               ManifestEvent(timestamp, metadata, promote,
                                             reason))
        IN IF Len(appended) <= HistoryCap THEN appended
           ELSE SubSeq(appended, 1, HistoryCap)]

\* update_manifest, lines 711-747; timestamp is now_iso()
update_manifest(m, metadata, promote, reason, timestamp) ==
    [promoted |-> IF promote THEN Some(PromotedEntry(metadata))
                  ELSE m.promoted,
     history |->
        LastN(Append(m.history,
                     ManifestEvent(timestamp, metadata, promote, reason)),
              HistoryCap)]

\* read_manifest on a missing file
EmptyManifest == [promoted |-> None, history |-> <<>>]

\* load_artifact(path): None when the file does not exist
load_artifact(files, path) == files[path]

\* variant: the candidate of the run is taken before the promoted model
SelectedArtifact_candidate_first(m, candidate_metadata, files) ==
    IF IsSome(candidate_metadata)
    THEN load_artifact(files, Get(candidate_metadata).artifact_path)
    ELSE IF IsSome(m.promoted)
    THEN load_artifact(files, Get(m.promoted).artifact_path)
    ELSE None

\* main, lines 1019-1025: the artifact the queue is built with
SelectedArtifact(m, candidate_metadata, files) ==
    IF IsSome(m.promoted)
    THEN load_artifact(files, Get(m.promoted).artifact_path)
    ELSE IF IsSome(candidate_metadata)
    THEN load_artifact(files, Get(candidate_metadata).artifact_path)
    ELSE None

\* main: the locals before anything is read (lines 956-965 give metrics,
\* candidate_metadata, promote and reason their initial values)
IdleRun == [gold_total |-> 0, gold_classes |-> 0, mode |-> "not_trained",
            old_metrics |-> None, metrics |-> NotTrainedMetrics,
            candidate |-> None, promote |-> FALSE,
            reason |-> "insufficient_gold_labels", force |-> FALSE,
            min_macro |-> DefaultMinMacroF1Improvement,
            manifest |-> EmptyManifest]

NoReport == [trained |-> FALSE, promoted |-> FALSE, promotion_reason |-> ""]

\* DisciplineClassifier.__init__: nothing checked, nothing cached
FreshClassifier == [checked |-> FALSE, model |-> None]

\* Idle values of the parts a specification does not exercise
IdleDec == [new |-> NotTrainedMetrics, old |-> None, min_macro |-> 0,
            min_acc |-> 0, force |-> FALSE, out |-> None]
IdleGrad == <<>>
IdleGold == <<>>
IdlePipe == [stage |-> "off"]
IdleAssembly == <<>>
IdleQueue == <<>>
IdleReview == <<>>
IdleLoader == <<>>
IdleBatch == <<>>
IdleLedger == <<>>
IdleRerun == <<>>
IdleEvaluation == <<>>

InitTrainer ==
    /\ pc = "idle"
    /\ run = IdleRun
    /\ clock = 0
    /\ stamp = 0
    /\ artifacts = [id \in ModelIds |-> None]
    /\ manifest = EmptyManifest
    /\ report = NoReport
    /\ qmodel = None
    /\ clf = FreshClassifier

IdleTrainer ==
    /\ pc = "off"
    /\ run = IdleRun
    /\ clock = 0
    /\ stamp = 0
    /\ artifacts = [id \in ModelIds |-> None]
    /\ manifest = EmptyManifest
    /\ report = NoReport
    /\ qmodel = None
    /\ clf = FreshClassifier

\* main, lines 903-984: read the gold labels (after bootstrap and seeding),
\* drop the rare classes, read the manifest, decide whether the set can be
\* trained on and, if so, evaluate a candidate.  The rows in the gold file
\* and the metrics scikit-learn reports are inputs.
TrainStart ==
    /\ pc = "idle"
    /\ stamp < MaxRuns
    /\ \E raw \in GoldCounters, metrics \in RunMetrics :
         LET counts == filter_rare_gold_classes(raw, 2)
             old == IF IsSome(manifest.promoted)
                    THEN Some(Get(manifest.promoted).metrics) ELSE None
             base == [IdleRun EXCEPT
                         !.gold_total = GoldTotal(counts),
                         !.gold_classes =
                             Cardinality(GoldCounterClasses(counts)),
                         !.old_metrics = old,
                         !.manifest = manifest]
         IN IF Trainable(counts)
            THEN /\ run' = [base EXCEPT !.mode = EvaluationMode(counts),
                                        !.metrics = metrics]
                 /\ pc' = "evaluated"
            ELSE /\ metrics = NotTrainedMetrics
                 /\ run' = base
                 /\ pc' = "skipped"
    /\ stamp' = stamp + 1
    /\ clf' = FreshClassifier
    /\ UNCHANGED <<clock, artifacts, manifest, report, qmodel>>
    /\ UNCHANGED <<dec, grad, gold, pipe, assembly, queue, review, loader, batch, ledger, rerun, evaluation>>

\* main, lines 986-1000: save_artifact writes the bundle and its metadata
\* under the model_id taken from the clock
SaveArtifact ==
    /\ pc = "evaluated"
    /\ LET model_id == ModelId(clock, stamp)
       IN /\ artifacts' =
                [artifacts EXCEPT ![ArtifactPath(model_id)] =
                    Some(ArtifactBundle(model_id, stamp, run.metrics))]
          /\ run' = [run EXCEPT !.candidate =
                        Some(CandidateMetadata(model_id, stamp, run.metrics))]
    /\ pc' = "saved"
    /\ UNCHANGED <<clock, stamp, manifest, report, qmodel, clf>>
    /\ UNCHANGED <<dec, grad, gold, pipe, assembly, queue, review, loader, batch, ledger, rerun, evaluation>>

\* main, lines 1002-1015: promotion_decision, then update_manifest writes
\* manifest.json.  The thresholds and the force flag are the run's arguments.
RecordDecision ==
    /\ pc = "saved"
    /\ \E force \in BOOLEAN, min_macro \in ThresholdValues,
          min_acc \in ThresholdValues :
         LET d == promotion_decision(run.metrics, run.old_metrics,
                                     min_macro, min_acc, force)
             out == update_manifest(run.manifest, Get(run.candidate),
                                    d.promote, d.reason, stamp)
         IN /\ manifest' = out
            /\ run' = [run EXCEPT !.promote = d.promote,
                                  !.reason = d.reason,
                                  !.force = force,
                                  !.min_macro = min_macro,
                                  !.manifest = out]
    /\ pc' = "recorded"
    /\ UNCHANGED <<clock, stamp, artifacts, report, qmodel, clf>>
    /\ UNCHANGED <<dec, grad, gold, pipe, assembly, queue, review, loader, batch, ledger, rerun, evaluation>>

\* main, lines 1016-1056: pick the artifact for the confidence queue, build
\* and write the queue, write the report
BuildQueueAndReport ==
    /\ pc \in {"recorded", "skipped"}
    /\ qmodel' = SelectedArtifact(run.manifest, run.candidate, artifacts)
    /\ report' = [trained |-> IsSome(run.candidate),
                  promoted |-> run.promote,
                  promotion_reason |-> run.reason]
    /\ run' = IdleRun
    /\ pc' = "idle"
    /\ UNCHANGED <<clock, stamp, artifacts, manifest, clf>>
    /\ UNCHANGED <<dec, grad, gold, pipe, assembly, queue, review, loader, batch, ledger, rerun, evaluation>>

\* a second of wall-clock time passes
Tick ==
    /\ pc = "idle"
    /\ clock < MaxClock
    /\ clock' = clock + 1
    /\ UNCHANGED <<pc, run, stamp, artifacts, manifest, report, qmodel, clf>>
    /\ UNCHANGED <<dec, grad, gold, pipe, assembly, queue, review, loader, batch, ledger, rerun, evaluation>>

\* DisciplineClassifier._load_promoted_model_if_needed: the result of the
\* first call is cached; a missing manifest entry or file gives None
load_promoted_model_if_needed(c, m, files) ==
    IF c.checked THEN c
    ELSE IF ~IsSome(m.promoted) THEN [checked |-> TRUE, model |-> None]
    ELSE [checked |-> TRUE,
          model |-> files[Get(m.promoted).artifact_path]]

\* a classification run (sanitize_and_classify_positions) between trainer
\* runs: it builds a new DisciplineClassifier, whose first use of the promoted
\* model loads it; the instance is gone when the next trainer run starts
LoadPromotedModel ==
    /\ pc = "idle"
    /\ clf' = load_promoted_model_if_needed(FreshClassifier, manifest,
                                            artifacts)
    /\ clf' # clf
    /\ UNCHANGED <<pc, run, clock, stamp, artifacts, manifest, report, qmodel>>
    /\ UNCHANGED <<dec, grad, gold, pipe, assembly, queue, review, loader, batch, ledger, rerun, evaluation>>

Init ==
    /\ InitTrainer
    /\ dec = IdleDec
    /\ grad = IdleGrad
    /\ gold = IdleGold
    /\ pipe = IdlePipe
    /\ assembly = IdleAssembly
    /\ queue = IdleQueue
    /\ review = IdleReview
    /\ loader = IdleLoader
    /\ batch = IdleBatch
    /\ ledger = IdleLedger
    /\ rerun = IdleRerun
    /\ evaluation = IdleEvaluation

Next ==
    \/ TrainStart
    \/ SaveArtifact
    \/ RecordDecision
    \/ BuildQueueAndReport
    \/ Tick
    \/ LoadPromotedModel

Spec == Init /\ [][Next]_vars

\* the trainer alone
NextTrainer ==
    \/ TrainStart
    \/ SaveArtifact
    \/ RecordDecision
    \/ BuildQueueAndReport
    \/ Tick

\* main runs from its first statement to its last: a run that has started
\* takes its next step
SpecTrainerRuns ==
    /\ Init
    /\ [][NextTrainer]_vars
    /\ WF_vars(SaveArtifact)
    /\ WF_vars(RecordDecision)
    /\ WF_vars(BuildQueueAndReport)

-----------------------------------------------------------------------------
(* promotion_decision applied to drawn inputs *)

DecisionInputs ==
    [new : Metrics,
     old : {None} \cup {Some(m) : m \in Metrics},
     min_macro : ThresholdValues,
     min_acc : ThresholdValues,
     force : BOOLEAN,
     out : {None}]

InitDecision ==
    /\ IdleTrainer
    /\ dec \in DecisionInputs
    /\ grad = IdleGrad
    /\ gold = IdleGold
    /\ pipe = IdlePipe
    /\ assembly = IdleAssembly
    /\ queue = IdleQueue
    /\ review = IdleReview
    /\ loader = IdleLoader
    /\ batch = IdleBatch
    /\ ledger = IdleLedger
    /\ rerun = IdleRerun
    /\ evaluation = IdleEvaluation

Decide ==
    /\ ~IsSome(dec.out)
    /\ dec' = [dec EXCEPT !.out =
                  Some(promotion_decision(dec.new, dec.old, dec.min_macro,
                                          dec.min_acc, dec.force))]
    /\ UNCHANGED trainerVars
    /\ UNCHANGED <<grad, gold, pipe, assembly, queue, review, loader, batch, ledger, rerun, evaluation>>

NextDecision == Decide

SpecDecision == InitDecision /\ [][NextDecision]_vars

-----------------------------------------------------------------------------
(* The gold label store: bootstrap and auto-seed (trainer) and the review
   import.  A label is kept as its position_key, discipline and source. *)

\* identities a row is drawn with: nothing usable, a URL with title and
\* organization, a title and organization without URL
RowIdentities ==
    {[url |-> "", title |-> "", organization |-> ""],
     [url |-> "u1", title |-> "t1", organization |-> "o1"],
     [url |-> "", title |-> "t1", organization |-> "o1"]}

\* location and published_date are empty in the drawn rows
position_key(row) ==
    IF row.url # "" THEN "url::" \o row.url
    ELSE IF row.title # "" /\ row.organization # ""
    THEN "title_org::" \o row.title \o "::" \o row.organization \o "::::"
    ELSE IF row.title # "" THEN "title::" \o row.title \o "::"
    ELSE ""

\* the entries of DISCIPLINE_MAPPING the drawn rows use; the trainer, the
\* review importer and the dashboard script each hold the same table
DISCIPLINE_MAPPING ==
    ("Wildlife" :> "Wildlife")
    @@ ("Ecology" :> "Environmental Sciences")
    @@ ("Environmental Sciences" :> "Environmental Sciences")
    @@ ("Fisheries" :> "Fisheries and Aquatic")
    @@ ("Fisheries and Aquatic" :> "Fisheries and Aquatic")
    @@ ("Entomology" :> "Entomology")
    @@ ("Other" :> "Other")
    @@ ("Unknown" :> "Other")

normalize_discipline(value) ==
    IF value = "" THEN "Other"
    ELSE IF value \in DOMAIN DISCIPLINE_MAPPING THEN DISCIPLINE_MAPPING[value]
    ELSE "Other"

LabelKeys(labels) == {labels[i].position_key : i \in DOMAIN labels}

\* rows of data/ml_training_data.json
TrainingRows ==
    [identity : RowIdentities,
     discipline : {"Wildlife", "Ecology", ""},
     human_verified : BOOLEAN]

RECURSIVE bootstrap_gold_from_training_data(_, _)
bootstrap_gold_from_training_data(labels, positions) ==
    IF positions = <<>> THEN labels
    ELSE LET row == Head(positions)
             key == position_key(row.identity)
         IN IF \/ ~row.human_verified
               \/ key = ""
               \/ key \in LabelKeys(labels)
            THEN bootstrap_gold_from_training_data(labels, Tail(positions))
            ELSE bootstrap_gold_from_training_data(
                     Append(labels,
                            [position_key |-> key,
                             discipline |->
                                 normalize_discipline(row.discipline),
                             source |-> "bootstrap_ml_training_data"]),
                     Tail(positions))

\* parse_args: --auto-seed-max-per-class default 3,
\* --auto-seed-min-grad-confidence default 0.85 (in hundredths)
AutoSeedMaxPerClass == 3
AutoSeedMinGradConfidence == 85

\* what a stored posting carries for the auto-seed: its stored discipline,
\* grad_confidence (hundredths), whether its text has a strong signal for
\* that discipline, and its discipline_refinement_source
SeedAttributes ==
    {[discipline |-> "Wildlife", grad_confidence |-> 90,
      strong_signal |-> TRUE, refinement_source |-> "none"],
     [discipline |-> "Wildlife", grad_confidence |-> 95,
      strong_signal |-> TRUE, refinement_source |-> "secondary_ml"],
     [discipline |-> "Ecology", grad_confidence |-> 90,
      strong_signal |-> TRUE, refinement_source |-> "none"],
     [discipline |-> "Other", grad_confidence |-> 90,
      strong_signal |-> TRUE, refinement_source |-> "none"],
     [discipline |-> "Wildlife", grad_confidence |-> 80,
      strong_signal |-> TRUE, refinement_source |-> "none"],
     [discipline |-> "Wildlife", grad_confidence |-> 90,
      strong_signal |-> FALSE, refinement_source |-> "none"],
     [discipline |-> "Wildlife", grad_confidence |-> 90,
      strong_signal |-> TRUE, refinement_source |-> "promoted_model"]}

StoredPositions == [identity : RowIdentities, attributes : SeedAttributes]

\* the disciplines a bucket can be for, in sorted() order
SortedDisciplines == <<"Environmental Sciences", "Wildlife">>

SeedCandidate(row, existing_keys, min_grad_confidence) ==
    LET key == position_key(row.identity)
    IN /\ key # ""
       /\ key \notin existing_keys
       /\ normalize_discipline(row.attributes.discipline) # "Other"
       /\ row.attributes.refinement_source # "promoted_model"
       /\ row.attributes.grad_confidence >= min_grad_confidence
       /\ row.attributes.strong_signal

RECURSIVE SelectRows(_, _, _, _)
SelectRows(rows, existing_keys, min_grad_confidence, discipline) ==
    IF rows = <<>> THEN <<>>
    ELSE LET rest == SelectRows(Tail(rows), existing_keys,
                                min_grad_confidence, discipline)
         IN IF /\ SeedCandidate(Head(rows), existing_keys,
                                min_grad_confidence)
               /\ normalize_discipline(Head(rows).attributes.discipline)
                     = discipline
            THEN <<Head(rows)>> \o rest
            ELSE rest

\* sorted(bucket, key=grad_confidence, reverse=True): stable, so rows of
\* equal confidence keep their order
RECURSIVE InsertRanked(_, _)
InsertRanked(row, ranked) ==
    IF ranked = <<>> THEN <<row>>
    ELSE IF Head(ranked).attributes.grad_confidence
               >= row.attributes.grad_confidence
    THEN <<Head(ranked)>> \o InsertRanked(row, Tail(ranked))
    ELSE <<row>> \o ranked

RECURSIVE RankByGradConfidence(_)
RankByGradConfidence(rows) ==
    IF rows = <<>> THEN <<>>
    ELSE InsertRanked(rows[Len(rows)],
                      RankByGradConfidence(SubSeq(rows, 1, Len(rows) - 1)))

RECURSIVE AppendSeeded(_, _, _)
AppendSeeded(labels, rows, discipline) ==
    IF rows = <<>> THEN labels
    ELSE AppendSeeded(
             Append(labels,
                    [position_key |-> position_key(Head(rows).identity),
                     discipline |-> discipline,
                     source |-> "auto_seed_high_confidence_v1"]),
             Tail(rows), discipline)

RECURSIVE SeedDisciplines(_, _, _, _, _)
SeedDisciplines(labels, disciplines, rows, existing_keys, max_per_class) ==
    IF disciplines = <<>> THEN labels
    ELSE LET bucket == SelectRows(rows, existing_keys,
                                  AutoSeedMinGradConfidence,
                                  Head(disciplines))
             ranked == RankByGradConfidence(bucket)
             seeded == IF Len(bucket) >= 2
                       THEN AppendSeeded(labels,
                                SubSeq(ranked, 1,
                                       Min(max_per_class, Len(ranked))),
                                Head(disciplines))
                       ELSE labels
         IN SeedDisciplines(seeded, Tail(disciplines), rows, existing_keys,
                            max_per_class)

seed_gold_from_positions(labels, positions, max_per_class) ==
    SeedDisciplines(labels, SortedDisciplines, positions, LabelKeys(labels),
                    max_per_class)

\* import_discipline_queue_reviews.py: the statuses a reviewer's cell maps to
VALID_REVIEW_STATUSES ==
    ("accept_model" :> "accept_model")
    @@ ("model" :> "accept_model")
    @@ ("accept" :> "accept_model")
    @@ ("keep_final" :> "keep_final")
    @@ ("keep" :> "keep_final")
    @@ ("final" :> "keep_final")
    @@ ("override" :> "override")
    @@ ("set_label" :> "override")
    @@ ("set" :> "override")
    @@ ("skip" :> "skip")
    @@ ("" :> "skip")

\* the drawn cells are already stripped and in lower case
resolve_review_action(raw_status) ==
    IF raw_status \in DOMAIN VALID_REVIEW_STATUSES
    THEN VALID_REVIEW_STATUSES[raw_status]
    ELSE "invalid"

\* the key columns of a review row: the position_key cell and the identity
\* columns build_row_key falls back to
ReviewRowKeys ==
    {[position_key |-> "", identity |->
         [url |-> "", title |-> "", organization |-> ""]],
     [position_key |-> "url::u1", identity |->
         [url |-> "", title |-> "", organization |-> ""]],
     [position_key |-> "", identity |->
         [url |-> "u1", title |-> "t1", organization |-> "o1"]],
     [position_key |-> "", identity |->
         [url |-> "", title |-> "t1", organization |-> "o1"]]}

\* the reviewer's cells of a review row
ReviewCells ==
    {[review_status |-> "accept_model", discipline_model_suggested |->
         "Wildlife", discipline_final |-> "Other", reviewed_discipline |-> ""],
     [review_status |-> "accept", discipline_model_suggested |-> "Other",
      discipline_final |-> "Wildlife", reviewed_discipline |-> ""],
     [review_status |-> "keep", discipline_model_suggested |-> "Wildlife",
      discipline_final |-> "Other", reviewed_discipline |-> ""],
     [review_status |-> "override", discipline_model_suggested |->
         "Wildlife", discipline_final |-> "Other", reviewed_discipline |-> ""],
     [review_status |-> "set", discipline_model_suggested |-> "Wildlife",
      discipline_final |-> "Other", reviewed_discipline |-> "Fisheries"],
     [review_status |-> "", discipline_model_suggested |-> "Wildlife",
      discipline_final |-> "Other", reviewed_discipline |-> "Fisheries"],
     [review_status |-> "done", discipline_model_suggested |-> "Wildlife",
      discipline_final |-> "Other", reviewed_discipline |-> "Fisheries"]}

ReviewRows == [key : ReviewRowKeys, cells : ReviewCells]

build_row_key(row) ==
    IF row.key.position_key # "" THEN row.key.position_key
    ELSE position_key(row.key.identity)

\* the label chosen for a row, None when the row writes nothing
choose_final_label(cells, action) ==
    IF action = "skip" THEN None
    ELSE IF action = "accept_model"
    THEN IF normalize_discipline(cells.discipline_model_suggested) = "Other"
         THEN None
         ELSE Some(normalize_discipline(cells.discipline_model_suggested))
    ELSE IF action = "keep_final"
    THEN Some(normalize_discipline(cells.discipline_final))
    ELSE IF action = "override"
    THEN IF cells.reviewed_discipline = "" THEN None
         ELSE Some(normalize_discipline(cells.reviewed_discipline))
    ELSE None

\* by_key[key]: the entry the import updates, the last one stored with the key
LastIndexOf(labels, key) ==
    Max(0, CHOOSE i \in DOMAIN labels \cup {0} :
               /\ i # 0 => labels[i].position_key = key
               /\ \A j \in DOMAIN labels :
                     labels[j].position_key = key => j <= i)

\* variant: an updated entry is taken out and written again at the end
RECURSIVE import_reviews_reappending(_, _)
import_reviews_reappending(labels, rows) ==
    IF rows = <<>> THEN labels
    ELSE LET row == Head(rows)
             action == resolve_review_action(row.cells.review_status)
             key == build_row_key(row)
             chosen == choose_final_label(row.cells, action)
             existing == LastIndexOf(labels, key)
             entry == [position_key |-> key, discipline |-> Get(chosen),
                       source |-> "discipline_queue_review"]
         IN IF action = "invalid" \/ key = "" \/ ~IsSome(chosen)
            THEN import_reviews_reappending(labels, Tail(rows))
            ELSE IF existing = 0
            THEN import_reviews_reappending(Append(labels, entry), Tail(rows))
            ELSE import_reviews_reappending(
                     Append(SubSeq(labels, 1, existing - 1)
                            \o SubSeq(labels, existing + 1, Len(labels)),
                            entry),
                     Tail(rows))

\* variant: the import ends at the first row that writes nothing
RECURSIVE import_reviews_stopping_at_skipped_row(_, _)
import_reviews_stopping_at_skipped_row(labels, rows) ==
    IF rows = <<>> THEN labels
    ELSE LET row == Head(rows)
             action == resolve_review_action(row.cells.review_status)
             key == build_row_key(row)
             chosen == choose_final_label(row.cells, action)
             existing == LastIndexOf(labels, key)
         IN IF action = "invalid" \/ key = "" \/ ~IsSome(chosen)
            THEN labels
            ELSE IF existing = 0
            THEN import_reviews_stopping_at_skipped_row(
                     Append(labels,
                            [position_key |-> key,
                             discipline |-> Get(chosen),
                             source |-> "discipline_queue_review"]),
                     Tail(rows))
            ELSE import_reviews_stopping_at_skipped_row(
                     [labels EXCEPT ![existing] =
                         [@ EXCEPT !.discipline = Get(chosen),
                                   !.source = "discipline_queue_review"]],
                     Tail(rows))

RECURSIVE import_reviews(_, _)
import_reviews(labels, rows) ==
    IF rows = <<>> THEN labels
    ELSE LET row == Head(rows)
             action == resolve_review_action(row.cells.review_status)
             key == build_row_key(row)
             chosen == choose_final_label(row.cells, action)
             existing == LastIndexOf(labels, key)
         IN IF action = "invalid" \/ key = "" \/ ~IsSome(chosen)
            THEN import_reviews(labels, Tail(rows))
            ELSE IF existing = 0
            THEN import_reviews(
                     Append(labels,
                            [position_key |-> key,
                             discipline |-> Get(chosen),
                             source |-> "discipline_queue_review"]),
                     Tail(rows))
            ELSE import_reviews(
                     [labels EXCEPT ![existing] =
                         [@ EXCEPT !.discipline = Get(chosen),
                                   !.source = "discipline_queue_review"]],
                     Tail(rows))

\* rows one operation reads, and the labels the store may hold before an
\* operation is applied
MaxRows == 2
MaxLabels == 2

RowsOf(kinds) == UNION {[1..n -> kinds] : n \in 0..MaxRows}

InitGold ==
    /\ IdleTrainer
    /\ dec = IdleDec
    /\ grad = IdleGrad
    /\ gold = <<>>
    /\ pipe = IdlePipe
    /\ assembly = IdleAssembly
    /\ queue = IdleQueue
    /\ review = IdleReview
    /\ loader = IdleLoader
    /\ batch = IdleBatch
    /\ ledger = IdleLedger
    /\ rerun = IdleRerun
    /\ evaluation = IdleEvaluation

\* main of the trainer, lines 909-913: only an empty store is bootstrapped
Bootstrap ==
    /\ gold = <<>>
    /\ \E positions \in RowsOf(TrainingRows) :
          gold' = bootstrap_gold_from_training_data(gold, positions)
    /\ UNCHANGED trainerVars
    /\ UNCHANGED <<dec, grad, pipe, assembly, queue, review, loader, batch, ledger, rerun, evaluation>>

AutoSeed ==
    /\ Len(gold) < MaxLabels
    /\ \E positions \in RowsOf(StoredPositions),
          max_per_class \in {1, AutoSeedMaxPerClass} :
          gold' = seed_gold_from_positions(gold, positions, max_per_class)
    /\ UNCHANGED trainerVars
    /\ UNCHANGED <<dec, grad, pipe, assembly, queue, review, loader, batch, ledger, rerun, evaluation>>

ReviewImport ==
    /\ Len(gold) < MaxLabels
    /\ \E rows \in RowsOf(ReviewRows) :
          gold' = import_reviews(gold, rows)
    /\ UNCHANGED trainerVars
    /\ UNCHANGED <<dec, grad, pipe, assembly, queue, review, loader, batch, ledger, rerun, evaluation>>

NextGold == Bootstrap \/ AutoSeed \/ ReviewImport

SpecGold == InitGold /\ [][NextGold]_vars

\* one run of the review importer: the labels of the store it opens, the rows
\* of the reviews file, and the labels it writes back
ReviewStores ==
    {<<>>,
     <<[position_key |-> "url::u1", discipline |-> "Entomology",
        source |-> "bootstrap_ml_training_data"]>>}

ReviewInputs ==
    [labels : ReviewStores, rows : RowsOf(ReviewRows), out : {None}]

InitImport ==
    /\ IdleTrainer
    /\ dec = IdleDec
    /\ grad = IdleGrad
    /\ gold = IdleGold
    /\ pipe = IdlePipe
    /\ assembly = IdleAssembly
    /\ queue = IdleQueue
    /\ review \in ReviewInputs
    /\ loader = IdleLoader
    /\ batch = IdleBatch
    /\ ledger = IdleLedger
    /\ rerun = IdleRerun
    /\ evaluation = IdleEvaluation

\* main of the importer, lines 196-282
ImportReviews ==
    /\ ~IsSome(review.out)
    /\ review' = [review EXCEPT !.out =
                     Some(import_reviews(review.labels, review.rows))]
    /\ UNCHANGED trainerVars
    /\ UNCHANGED <<dec, grad, gold, pipe, assembly, queue, loader, batch, ledger, rerun, evaluation>>

NextImport == ImportReviews

SpecImport == InitImport /\ [][NextImport]_vars

\* C10: after any sequence of bootstrap, auto-seed and review import from an
\* empty store, no two labels of the gold store have the same position_key,
\* also when one operation's rows carry a key more than once.
C10_OneLabelPerPositionKey ==
    \A i, j \in DOMAIN gold :
        gold[i].position_key = gold[j].position_key => i = j

-----------------------------------------------------------------------------
(* GraduatePositionDetector.  A text is the set of the phrases below that it
   contains; TextFeatures gives, for each phrase, what the detector's regex
   lists and keyword lists find in it.  Confidence is in hundredths. *)

Phrases ==
    {"fellowship", "stipend", "graduate student", "phd", "masters",
     "permanent position", "consultant", "professor",
     "graduate research assistantship", "thesis research"}

NoFeatures ==
    [hard_exclusion |-> FALSE, explicit_assistantship |-> FALSE,
     explicit_pattern |-> FALSE, assistantship |-> 0, fellowship |-> 0,
     degree_pursuit |-> 0, funding_keywords |-> 0, exclusion |-> 0,
     phd_term |-> FALSE, masters_term |-> FALSE]

\* grad_indicators, exclusion_indicators, hard_exclusion_patterns,
\* explicit_assistantship_patterns, explicit_graduate_patterns and the two
\* term lists of _analyze_text, applied to each phrase
TextFeatures ==
    [ph \in Phrases |->
        CASE ph = "fellowship" -> [NoFeatures EXCEPT !.fellowship = 1]
          [] ph = "stipend" -> [NoFeatures EXCEPT !.funding_keywords = 1]
          [] ph = "graduate student" ->
                [NoFeatures EXCEPT !.degree_pursuit = 1]
          [] ph = "phd" -> [NoFeatures EXCEPT !.phd_term = TRUE]
          [] ph = "masters" -> [NoFeatures EXCEPT !.masters_term = TRUE]
          [] ph = "permanent position" -> [NoFeatures EXCEPT !.exclusion = 1]
          [] ph = "consultant" -> [NoFeatures EXCEPT !.exclusion = 1]
          [] ph = "professor" -> [NoFeatures EXCEPT !.hard_exclusion = TRUE]
          [] ph = "graduate research assistantship" ->
                [NoFeatures EXCEPT !.explicit_assistantship = TRUE,
                                   !.explicit_pattern = TRUE,
                                   !.assistantship = 1]
          [] ph = "thesis research" ->
                [NoFeatures EXCEPT !.explicit_pattern = TRUE,
                                   !.degree_pursuit = 1]]

\* number of keywords of one category found in a text
RECURSIVE Matches(_, _)
Matches(text, category) ==
    IF text = {} THEN 0
    ELSE LET ph == CHOOSE x \in text : TRUE
         IN (CASE category = "assistantship" -> TextFeatures[ph].assistantship
               [] category = "fellowship" -> TextFeatures[ph].fellowship
               [] category = "degree_pursuit" ->
                     TextFeatures[ph].degree_pursuit
               [] category = "funding_keywords" ->
                     TextFeatures[ph].funding_keywords
               [] category = "exclusion" -> TextFeatures[ph].exclusion)
            + Matches(text \ {ph}, category)

analyze_text(text) ==
    LET phd == \E ph \in text : TextFeatures[ph].phd_term
        masters == \E ph \in text : TextFeatures[ph].masters_term
        after_categories ==
            IF Matches(text, "fellowship") > 0 THEN "Fellowship"
            ELSE IF Matches(text, "assistantship") > 0
            THEN "Graduate Assistantship"
            ELSE IF Matches(text, "degree_pursuit") > 0
            THEN "Graduate Position"
            ELSE "unknown"
        grad_score ==
            2 * (Matches(text, "assistantship") + Matches(text, "fellowship")
                 + Matches(text, "degree_pursuit")
                 + Matches(text, "funding_keywords"))
            + (IF phd THEN 2 ELSE 0) + (IF masters THEN 2 ELSE 0)
        exclusion_score == 3 * Matches(text, "exclusion")
    IN [has_hard_exclusion |->
            \E ph \in text : TextFeatures[ph].hard_exclusion,
        has_explicit_assistantship |->
            \E ph \in text : TextFeatures[ph].explicit_assistantship,
        has_explicit_pattern |->
            \E ph \in text : TextFeatures[ph].explicit_pattern,
        classification_type |->
            IF after_categories # "unknown" THEN after_categories
            ELSE IF phd THEN "PhD Position"
            ELSE IF masters THEN "Masters Position"
            ELSE "unknown",
        grad_score |-> grad_score,
        exclusion_score |-> exclusion_score,
        total_score |-> grad_score - exclusion_score,
        confidence |->
            Min(Max((grad_score - exclusion_score) * 10, 0), 100)]

\* variant: the label is resolved from the evidence whatever the decision
label_for_decision_from_evidence(analysis, is_grad) ==
    IF analysis.classification_type # "unknown"
    THEN analysis.classification_type
    ELSE IF analysis.has_explicit_assistantship THEN "Graduate Assistantship"
    ELSE IF is_grad THEN "Graduate Position"
    ELSE "Professional/Other"

label_for_decision(analysis, is_grad) ==
    IF ~is_grad THEN "Professional/Other"
    ELSE IF analysis.classification_type # "unknown"
    THEN analysis.classification_type
    ELSE IF analysis.has_explicit_assistantship THEN "Graduate Assistantship"
    ELSE "Graduate Position"

Decision(is_graduate, classification_type, confidence) ==
    [is_graduate |-> is_graduate,
     classification_type |-> classification_type,
     confidence |-> confidence]

\* None when the title is ambiguous and the full text is to be read
title_phase_decision(analysis) ==
    IF analysis.has_hard_exclusion /\ ~analysis.has_explicit_assistantship
    THEN Some(Decision(FALSE, "Professional/Other", 10))
    ELSE IF analysis.has_explicit_pattern
            \/ analysis.has_explicit_assistantship
    THEN Some(Decision(TRUE, label_for_decision(analysis, TRUE),
                       Max(analysis.confidence, 85)))
    ELSE IF /\ analysis.confidence >= 80
            /\ analysis.grad_score >= 4
            /\ analysis.exclusion_score = 0
    THEN Some(Decision(TRUE, label_for_decision(analysis, TRUE),
                       analysis.confidence))
    ELSE IF analysis.exclusion_score >= 4 /\ analysis.grad_score = 0
    THEN Some(Decision(FALSE, "Professional/Other",
                       Min(analysis.confidence, 20)))
    ELSE None

\* lines 364-381: the decision from the scores of the full text
full_text_scored_decision(analysis) ==
    LET is_graduate ==
            \/ analysis.confidence >= 70
            \/ analysis.has_explicit_pattern
            \/ /\ analysis.total_score > 0
               /\ analysis.grad_score >= 2
               /\ analysis.exclusion_score < analysis.grad_score * 2
        raised ==
            IF is_graduate /\ (\/ analysis.has_explicit_pattern
                               \/ analysis.has_explicit_assistantship)
            THEN Max(analysis.confidence, 75)
            ELSE analysis.confidence
    IN Decision(is_graduate, label_for_decision(analysis, is_graduate),
                IF is_graduate THEN raised ELSE Min(raised, 30))

\* variant: the full-text phase does not test the hard exclusion
full_text_decision_without_hard_exclusion(analysis) ==
    full_text_scored_decision(analysis)

\* lines 357-381: the full-text phase
full_text_decision(analysis) ==
    IF analysis.has_hard_exclusion /\ ~analysis.has_explicit_assistantship
    THEN Decision(FALSE, "Professional/Other", 10)
    ELSE full_text_scored_decision(analysis)

\* position.title_text: the phrases of title and tags; position.rest_text:
\* those of organization and description
is_graduate_position(position) ==
    LET title_decision == title_phase_decision(analyze_text(position.title_text))
    IN IF IsSome(title_decision) THEN Get(title_decision)
       ELSE full_text_decision(
                analyze_text(position.title_text \cup position.rest_text))

\* a phrase of the title found again in the description changes nothing in
\* _analyze_text, so the two parts are drawn disjoint
GradPositions ==
    {pos \in [title_text : SUBSET Phrases, rest_text : SUBSET Phrases] :
        pos.title_text \cap pos.rest_text = {}}

InitGrad ==
    /\ IdleTrainer
    /\ dec = IdleDec
    /\ \E pos \in GradPositions : grad = [position |-> pos, out |-> None]
    /\ gold = IdleGold
    /\ pipe = IdlePipe
    /\ assembly = IdleAssembly
    /\ queue = IdleQueue
    /\ review = IdleReview
    /\ loader = IdleLoader
    /\ batch = IdleBatch
    /\ ledger = IdleLedger
    /\ rerun = IdleRerun
    /\ evaluation = IdleEvaluation

IsGraduatePosition ==
    /\ ~IsSome(grad.out)
    /\ grad' = [grad EXCEPT !.out = Some(is_graduate_position(grad.position))]
    /\ UNCHANGED trainerVars
    /\ UNCHANGED <<dec, gold, pipe, assembly, queue, review, loader, batch, ledger, rerun, evaluation>>

NextGrad == IsGraduatePosition

SpecGrad == InitGrad /\ [][NextGrad]_vars

FullText(position) == position.title_text \cup position.rest_text

HardExclusionWithoutAssistantship(text) ==
    /\ \E ph \in text : TextFeatures[ph].hard_exclusion
    /\ ~\E ph \in text : TextFeatures[ph].explicit_assistantship

\* C2 as claimed: a posting whose text (title, tags, organization,
\* description) matches a hard-exclusion pattern and no explicit-assistantship
\* pattern gets is_graduate=False with confidence <= 0.3.
C2_HardExclusionNeverGraduate ==
    (/\ IsSome(grad.out)
     /\ HardExclusionWithoutAssistantship(FullText(grad.position)))
    => /\ ~Get(grad.out).is_graduate
       /\ Get(grad.out).confidence <= 30

\* the title and tags alone make the title phase answer "graduate": an
\* explicit graduate pattern, or confidence >= 0.8 with grad_score >= 4 and
\* exclusion_score 0
TitleAloneReadsGraduate(position) ==
    LET title == analyze_text(position.title_text)
    IN \/ title.has_explicit_pattern
       \/ /\ title.grad_score >= 8
          /\ title.exclusion_score = 0

\* C2 as amended: for such a posting the result is is_graduate=False with
\* confidence <= 0.3 when the hard-exclusion pattern is matched in title and
\* tags, or when title and tags alone do not read as graduate; when the
\* pattern is matched only in organization or description and title and tags
\* alone read as graduate, the title phase returns is_graduate=True with
\* confidence >= 0.8 without reading the rest.
C2_HardExclusionDecidesUnlessTitleReadsGraduate ==
    (/\ IsSome(grad.out)
     /\ HardExclusionWithoutAssistantship(FullText(grad.position)))
    => IF /\ ~HardExclusionWithoutAssistantship(grad.position.title_text)
          /\ TitleAloneReadsGraduate(grad.position)
       THEN /\ Get(grad.out).is_graduate
            /\ Get(grad.out).confidence >= 80
       ELSE /\ ~Get(grad.out).is_graduate
            /\ Get(grad.out).confidence <= 30
            /\ Get(grad.out).classification_type = "Professional/Other"

C2_Witness ==
    /\ IsSome(grad.out)
    /\ grad.position.title_text = {"fellowship", "stipend"}
    /\ grad.position.rest_text = {"professor", "graduate student"}
    /\ Get(grad.out) = Decision(FALSE, "Professional/Other", 10)

-----------------------------------------------------------------------------
(* DisciplineClassifier and sanitize_and_classify_positions.  The keyword
   scoring of a text is given by its result, the scores of the disciplines;
   similarities and probabilities are in hundredths. *)

discipline_priority ==
    <<"Human Dimensions", "Entomology", "Fisheries and Aquatic", "Wildlife",
      "Forestry and Habitat", "Agriculture", "Environmental Sciences">>

\* thresholds set in DisciplineClassifier.__init__
ml_min_similarity == 12
ml_override_similarity == 20
secondary_ml_min_train == 8
secondary_ml_min_classes == 2
secondary_ml_min_similarity == 30
secondary_ml_min_margin == 10
secondary_ml_secondary_min_similarity == 12
promoted_model_min_confidence == 62
promoted_model_min_margin == 8
promoted_model_secondary_min_confidence == 35

\* largest keyword score a discipline is drawn with in title and tags, and
\* the most that organization and description add to it
MaxScore == 3
MaxExtra == 2

\* the disciplines the drawn texts have keywords of
ScoredDisciplines == {"Fisheries and Aquatic", "Wildlife"}
ScoreDicts == [ScoredDisciplines -> 0..MaxScore]
ExtraScoreDicts == [ScoredDisciplines -> 0..MaxExtra]
NoScores == [d \in ScoredDisciplines |-> 0]

Labels(primary, secondary) == [primary |-> primary, secondary |-> secondary]

\* the disciplines a scores dict has an entry for
Scored(scores) == {d \in DOMAIN scores : scores[d] > 0}

priority_rank(name) ==
    Len(discipline_priority) + 1
    - (CHOOSE i \in DOMAIN discipline_priority : discipline_priority[i] = name)

RECURSIVE RankFrom(_, _)
RankFrom(scores, names) ==
    IF names = {} THEN <<>>
    ELSE LET top == CHOOSE a \in names : \A b \in names \ {a} :
                        \/ scores[a] > scores[b]
                        \/ /\ scores[a] = scores[b]
                           /\ priority_rank(a) > priority_rank(b)
         IN <<top>> \o RankFrom(scores, names \ {top})

\* the disciplines by score, ties broken by priority
rank_disciplines(scores) == RankFrom(scores, Scored(scores))

\* variant: the runner-up is named whatever its score
classify_from_all_scores(scores) ==
    LET ranked == RankFrom(scores, DOMAIN scores)
    IN IF Scored(scores) = {} THEN Labels("Other", "")
       ELSE Labels(ranked[1], IF Len(ranked) > 1 THEN ranked[2] ELSE "")

classify_from_scores(scores) ==
    LET ranked == rank_disciplines(scores)
    IN IF ranked = <<>> THEN Labels("Other", "")
       ELSE Labels(ranked[1], IF Len(ranked) > 1 THEN ranked[2] ELSE "")

TopScore(scores) ==
    LET ranked == rank_disciplines(scores)
    IN IF ranked = <<>> THEN 0 ELSE scores[ranked[1]]

SecondScore(scores) ==
    LET ranked == rank_disciplines(scores)
    IN IF Len(ranked) > 1 THEN scores[ranked[2]] ELSE 0

is_confident_title_match(scores) ==
    /\ Scored(scores) # {}
    /\ LET margin == TopScore(scores) - SecondScore(scores)
       IN \/ TopScore(scores) >= 4
          \/ TopScore(scores) >= 3 /\ margin >= 2
          \/ TopScore(scores) >= 2 /\ margin >= 2

is_ambiguous_scores(scores) ==
    \/ Scored(scores) = {}
    \/ TopScore(scores) <= 2
    \/ TopScore(scores) - SecondScore(scores) <= 1

\* _ml_classify_with_confidence, from the two best keyword-profile
\* similarities of the text and the rule labels of the same text
ml_classify_with_confidence(similarities, keyword_labels) ==
    IF similarities.top_similarity < 5
    THEN [primary |-> keyword_labels.primary,
          secondary |-> keyword_labels.secondary,
          confidence |-> similarities.top_similarity]
    ELSE [primary |-> similarities.top_label,
          secondary |-> IF similarities.second_similarity > 10
                        THEN similarities.second_label ELSE "",
          confidence |-> similarities.top_similarity]

\* variant: a similarity result at the minimum threshold always replaces
\* the rule result
maybe_refine_with_ml_without_override(labels, scores, ml, ml_refine_enabled) ==
    IF ~ml_refine_enabled \/ ~is_ambiguous_scores(scores) THEN labels
    ELSE IF ml.confidence < ml_min_similarity \/ ml.primary = "Other"
    THEN labels
    ELSE Labels(ml.primary, ml.secondary)

\* ml is the result of _ml_classify_with_confidence on the text
maybe_refine_with_ml(labels, scores, ml, ml_refine_enabled) ==
    IF ~ml_refine_enabled \/ ~is_ambiguous_scores(scores) THEN labels
    ELSE IF ml.confidence < ml_min_similarity \/ ml.primary = "Other"
    THEN labels
    ELSE IF labels.primary = "Other" THEN Labels(ml.primary, ml.secondary)
    ELSE IF ml.primary # labels.primary
            /\ ml.confidence < ml_override_similarity
    THEN labels
    ELSE Labels(ml.primary, ml.secondary)

HardNonGrad(position) ==
    position.has_hard_non_grad /\ ~position.has_explicit_assistantship

\* full-text scores with one point added for each discipline of the title
CombinedScores(title_scores, full_scores) ==
    [d \in DOMAIN full_scores |->
        IF title_scores[d] > 0 THEN full_scores[d] + 1 ELSE full_scores[d]]

\* the scores and labels of the rule tier on the full text, handed to
\* _maybe_refine_with_ml (classify_position, lines 694-710)
FullTextRules(position) ==
    IF Scored(position.full_scores) = {}
    THEN [labels |-> Labels("Other", ""), scores |-> NoScores]
    ELSE IF Scored(position.title_scores) # {}
    THEN LET combined == CombinedScores(position.title_scores,
                                        position.full_scores)
         IN [labels |-> classify_from_scores(combined), scores |-> combined]
    ELSE [labels |-> classify_from_scores(position.full_scores),
          scores |-> position.full_scores]

\* variant: a confident title is returned before the hard patterns are read
classify_position_title_first(position, similarities, ml_refine_enabled) ==
    IF is_confident_title_match(position.title_scores)
    THEN classify_from_scores(position.title_scores)
    ELSE IF HardNonGrad(position) THEN Labels("Other", "")
    ELSE LET rules == FullTextRules(position)
         IN maybe_refine_with_ml(
                rules.labels, rules.scores,
                ml_classify_with_confidence(
                    similarities,
                    classify_from_scores(position.full_scores)),
                ml_refine_enabled)

\* classify_position, lines 661-710
classify_position(position, similarities, ml_refine_enabled) ==
    IF HardNonGrad(position) THEN Labels("Other", "")
    ELSE IF is_confident_title_match(position.title_scores)
    THEN classify_from_scores(position.title_scores)
    ELSE LET rules == FullTextRules(position)
         IN maybe_refine_with_ml(
                rules.labels, rules.scores,
                ml_classify_with_confidence(
                    similarities,
                    classify_from_scores(position.full_scores)),
                ml_refine_enabled)

\* str(label or "").strip() or "Other", on labels without outer blanks
StripOrOther(label) == IF label = "" THEN "Other" ELSE label

\* first-pass rows of the batch other than the followed posting, all with a
\* non-Other label: how many there are and which labels they have
OtherRows ==
    {[count |-> 0, labels |-> {}],
     [count |-> 7, labels |-> {"Wildlife"}],
     [count |-> 8, labels |-> {"Wildlife", "Entomology"}]}

\* the centroid labels of the second-pass model, None when none is built
build_secondary_ml_artifacts(primary, others, has_sklearn) ==
    LET train_count == others.count + (IF primary = "Other" THEN 0 ELSE 1)
        unique_labels == others.labels
                         \cup (IF primary = "Other" THEN {} ELSE {primary})
    IN IF ~has_sklearn THEN None
       ELSE IF train_count < secondary_ml_min_train THEN None
       ELSE IF Cardinality(unique_labels) < secondary_ml_min_classes
       THEN None
       ELSE Some(unique_labels)

\* _secondary_ml_predict, from the two best centroid similarities
secondary_ml_predict(similarities) ==
    [primary |-> similarities.top_label,
     secondary |-> IF similarities.second_similarity
                        >= secondary_ml_secondary_min_similarity
                   THEN similarities.second_label ELSE "",
     similarity |-> similarities.top_similarity,
     margin |-> similarities.top_similarity
                - similarities.second_similarity]

\* variant: a row is refined whatever its label
refine_every_label_with_secondary_ml(labels, centroids, similarities, secondary_ml_enabled) ==
    LET base == Labels(StripOrOther(labels.primary), labels.secondary)
        ml == secondary_ml_predict(similarities)
    IN IF ~secondary_ml_enabled \/ ~IsSome(centroids) THEN base
       ELSE IF \/ ml.similarity < secondary_ml_min_similarity
               \/ ml.margin < secondary_ml_min_margin
               \/ ml.primary = "Other"
       THEN base
       ELSE Labels(ml.primary,
                   IF ml.secondary # "" /\ ml.secondary # ml.primary
                   THEN ml.secondary ELSE "")

\* one row of refine_other_labels_with_secondary_ml; similarities are read
\* only for a row labelled Other
refine_other_labels_with_secondary_ml(labels, centroids, similarities, secondary_ml_enabled) ==
    LET base == Labels(StripOrOther(labels.primary), labels.secondary)
        ml == secondary_ml_predict(similarities)
    IN IF ~secondary_ml_enabled \/ ~IsSome(centroids) THEN base
       ELSE IF base.primary # "Other" THEN base
       ELSE IF \/ ml.similarity < secondary_ml_min_similarity
               \/ ml.margin < secondary_ml_min_margin
               \/ ml.primary = "Other"
       THEN base
       ELSE Labels(ml.primary,
                   IF ml.secondary # "" /\ ml.secondary # ml.primary
                   THEN ml.secondary ELSE "")

\* predict_with_promoted_model, from the two best class probabilities of the
\* loaded model; available is FALSE when no promoted model is loaded
predict_with_promoted_model(probabilities) ==
    IF ~probabilities.available
    THEN [available |-> FALSE, primary |-> "", secondary |-> "",
          confidence |-> 0, margin |-> 0]
    ELSE [available |-> TRUE,
          primary |-> probabilities.top_label,
          secondary |-> IF probabilities.second_conf
                             < promoted_model_secondary_min_confidence
                        THEN "" ELSE probabilities.second_label,
          confidence |-> probabilities.top_conf,
          margin |-> probabilities.top_conf - probabilities.second_conf]

\* variant: the margin of the prediction is not tested
refine_other_labels_with_promoted_model_without_margin(labels, probabilities, promoted_model_enabled) ==
    LET base == Labels(StripOrOther(labels.primary), labels.secondary)
        pred == predict_with_promoted_model(probabilities)
    IN IF ~promoted_model_enabled THEN base
       ELSE IF base.primary # "Other" THEN base
       ELSE IF ~pred.available THEN base
       ELSE IF pred.primary = "" \/ pred.primary = "Other" THEN base
       ELSE IF pred.confidence < promoted_model_min_confidence THEN base
       ELSE Labels(pred.primary,
                   IF pred.secondary # "" /\ pred.secondary # pred.primary
                   THEN pred.secondary ELSE "")

\* one row of refine_other_labels_with_promoted_model
refine_other_labels_with_promoted_model(labels, probabilities, promoted_model_enabled) ==
    LET base == Labels(StripOrOther(labels.primary), labels.secondary)
        pred == predict_with_promoted_model(probabilities)
    IN IF ~promoted_model_enabled THEN base
       ELSE IF base.primary # "Other" THEN base
       ELSE IF ~pred.available THEN base
       ELSE IF pred.primary = "" \/ pred.primary = "Other" THEN base
       ELSE IF pred.confidence < promoted_model_min_confidence THEN base
       ELSE IF pred.margin < promoted_model_min_margin THEN base
       ELSE Labels(pred.primary,
                   IF pred.secondary # "" /\ pred.secondary # pred.primary
                   THEN pred.secondary ELSE "")

\* the pipeline's normalisation of a pair of labels (lines 334-341, 388-394)
NormalizeLabels(labels) ==
    LET primary == normalize_discipline(labels.primary)
        secondary == normalize_discipline(labels.secondary)
    IN Labels(primary,
              IF secondary # primary /\ secondary # "Other"
              THEN secondary ELSE "")

\* lines 396-405
RefinementSource(first_primary, after_secondary, primary_final) ==
    IF primary_final = first_primary THEN "rule"
    ELSE IF after_secondary # first_primary /\ primary_final = after_secondary
    THEN "secondary_ml"
    ELSE IF primary_final # after_secondary THEN "promoted_model"
    ELSE "rule"

\* what the texts of a posting give the classifier: the two regex lists on
\* the full text, the keyword scores of title and tags, and those of the full
\* text (a keyword of the title is also one of the full text)
Positions ==
    {[has_hard_non_grad |-> hard.non_grad,
      has_explicit_assistantship |-> hard.assistantship,
      title_scores |-> title,
      full_scores |-> [d \in ScoredDisciplines |-> title[d] + extra[d]]] :
        hard \in {[non_grad |-> FALSE, assistantship |-> FALSE],
                  [non_grad |-> TRUE, assistantship |-> FALSE],
                  [non_grad |-> TRUE, assistantship |-> TRUE]},
        title \in ScoreDicts, extra \in ExtraScoreDicts}

NoSimilarities ==
    [top_label |-> "", second_label |-> "", top_similarity |-> 0,
     second_similarity |-> 0]

\* best two similarities of the text to the keyword profiles
MLSimilarities ==
    {[top_label |-> "Entomology", second_label |-> "Wildlife",
      top_similarity |-> 4, second_similarity |-> 3]}
    \cup
    {[top_label |-> pair[1], second_label |-> pair[2],
      top_similarity |-> top, second_similarity |-> ml_min_similarity - 1] :
        pair \in {<<"Wildlife", "Entomology">>, <<"Entomology", "Wildlife">>},
        top \in {ml_min_similarity - 1, ml_min_similarity,
                 ml_override_similarity - 1, ml_override_similarity}}
    \cup
    {[top_label |-> "Entomology", second_label |-> "Wildlife",
      top_similarity |-> ml_override_similarity, second_similarity |-> 3]}

\* best two similarities of the text to the centroids of the second-pass model
CentroidSimilarities(centroids) ==
    {[top_label |-> pair[1], second_label |-> pair[2],
      top_similarity |-> sim[1], second_similarity |-> sim[2]] :
        pair \in {p \in centroids \X centroids : p[1] # p[2]},
        sim \in {<<secondary_ml_min_similarity,
                   secondary_ml_min_similarity - secondary_ml_min_margin>>,
                 <<secondary_ml_min_similarity - 1,
                   secondary_ml_min_similarity - 1 - secondary_ml_min_margin>>,
                 <<secondary_ml_min_similarity,
                   secondary_ml_min_similarity - secondary_ml_min_margin + 1>>,
                 <<secondary_ml_min_similarity,
                   secondary_ml_secondary_min_similarity - 1>>}}

NoProbabilities ==
    [available |-> FALSE, top_label |-> "", second_label |-> "",
     top_conf |-> 0, second_conf |-> 0]

\* best two class probabilities of the promoted model for the text; a class
\* Other exists when the gold store holds a label Other
PromotedProbabilities ==
    {NoProbabilities}
    \cup
    {[available |-> TRUE, top_label |-> pred[1],
      second_label |-> "Entomology",
      top_conf |-> pred[2], second_conf |-> pred[3]] :
        pred \in {<<"Wildlife", promoted_model_min_confidence,
                    promoted_model_secondary_min_confidence>>,
                  <<"Wildlife", promoted_model_min_confidence,
                    promoted_model_secondary_min_confidence - 1>>,
                  <<"Wildlife", promoted_model_min_confidence - 1,
                    promoted_model_secondary_min_confidence>>,
                  <<"Wildlife", promoted_model_min_confidence,
                    promoted_model_min_confidence
                        - promoted_model_min_margin + 1>>,
                  <<"Other", promoted_model_min_confidence,
                    promoted_model_secondary_min_confidence>>}}

NewPipe == [stage |-> "new"]

InitPipeline ==
    /\ IdleTrainer
    /\ dec = IdleDec
    /\ grad = IdleGrad
    /\ gold = IdleGold
    /\ pipe = NewPipe
    /\ assembly = IdleAssembly
    /\ queue = IdleQueue
    /\ review = IdleReview
    /\ loader = IdleLoader
    /\ batch = IdleBatch
    /\ ledger = IdleLedger
    /\ rerun = IdleRerun
    /\ evaluation = IdleEvaluation

\* sanitize_and_classify_positions followed for one posting of the batch
SanitizeAndClassify ==
    /\ pipe.stage = "new"
    /\ \/ pipe' = [stage |-> "done", is_grad |-> FALSE]
       \/ \E has_sklearn \in BOOLEAN, position \in Positions,
             others \in OtherRows :
          \E similarities \in
                (IF has_sklearn THEN MLSimilarities ELSE {NoSimilarities}) :
          \E raw \in {classify_position(position, similarities,
                                        has_sklearn)} :
          \E first \in {NormalizeLabels(raw)} :
          \E centroids \in {build_secondary_ml_artifacts(
                                first.primary, others, has_sklearn)} :
          \E centroid_similarities \in
                (IF IsSome(centroids)
                 THEN CentroidSimilarities(Get(centroids))
                 ELSE {NoSimilarities}),
             probabilities \in
                (IF has_sklearn THEN PromotedProbabilities
                 ELSE {NoProbabilities}) :
          \E after_secondary \in
                {refine_other_labels_with_secondary_ml(
                     first, centroids, centroid_similarities, has_sklearn)} :
          \E after_promoted \in
                {refine_other_labels_with_promoted_model(
                     after_secondary, probabilities, has_sklearn)} :
          \E final \in {NormalizeLabels(after_promoted)} :
             pipe' = [stage |-> "done", is_grad |-> TRUE,
                      has_sklearn |-> has_sklearn,
                      position |-> position,
                      similarities |-> similarities,
                      others |-> others,
                      centroids |-> centroids,
                      centroid_similarities |-> centroid_similarities,
                      probabilities |-> probabilities,
                      raw |-> raw,
                      first |-> first,
                      after_secondary |-> after_secondary,
                      after_promoted |-> after_promoted,
                      final |-> final,
                      refinement_source |->
                          RefinementSource(first.primary,
                                           after_secondary.primary,
                                           final.primary)]
    /\ UNCHANGED trainerVars
    /\ UNCHANGED <<dec, grad, gold, assembly, queue, review, loader, batch, ledger, rerun, evaluation>>

NextPipeline == SanitizeAndClassify

SpecPipeline == InitPipeline /\ [][NextPipeline]_vars

Classified == pipe.stage = "done" /\ pipe.is_grad

\* title and tags alone give a confident match: a best score of 4 or more,
\* or of 2 or more with every other discipline at least 2 below
TitleConfident(position) ==
    \E d \in ScoredDisciplines :
        /\ \A e \in ScoredDisciplines :
              position.title_scores[e] <= position.title_scores[d]
        /\ \/ position.title_scores[d] >= 4
           \/ /\ position.title_scores[d] >= 2
              /\ \A e \in ScoredDisciplines \ {d} :
                    position.title_scores[d] - position.title_scores[e] >= 2

\* the scores the rule tier decides on
RuleScores(position) ==
    IF TitleConfident(position) THEN position.title_scores
    ELSE CombinedScores(position.title_scores, position.full_scores)

\* the rule tier resolves the posting with its gates satisfied: a confident
\* title match, or full-text scores that are not ambiguous (a best score of
\* 3 or more with every other discipline at least 2 below)
RuleGatesSatisfied(position) ==
    /\ ~HardNonGrad(position)
    /\ \/ TitleConfident(position)
       \/ \E d \in ScoredDisciplines :
             /\ RuleScores(position)[d] >= 3
             /\ \A e \in ScoredDisciplines \ {d} :
                   RuleScores(position)[d] - RuleScores(position)[e] >= 2

\* C1: once a tier has resolved a posting's primary discipline to a label
\* other than Other with its gates satisfied, no later tier (similarity
\* refiner, secondary learned classifier, promoted model) changes the
\* posting's primary or secondary label: a posting the rules resolve keeps a
\* best-scored discipline as primary and the other scored discipline, if
\* any, as secondary; the two refine_other_labels functions return a row
\* whose input primary is not Other unchanged.
C1_ResolvedLabelsAreKept ==
    Classified =>
        /\ RuleGatesSatisfied(pipe.position)
           => LET scores == RuleScores(pipe.position)
              IN /\ scores[pipe.first.primary] > 0
                 /\ \A e \in ScoredDisciplines :
                       scores[e] <= scores[pipe.first.primary]
                 /\ \A e \in ScoredDisciplines \ {pipe.first.primary} :
                       IF scores[e] > 0 THEN pipe.first.secondary = e
                       ELSE pipe.first.secondary # e
                 /\ pipe.first.secondary
                       \in (ScoredDisciplines \ {pipe.first.primary})
                           \cup {""}
        /\ pipe.first.primary # "Other"
           => /\ pipe.after_secondary = pipe.first
              /\ pipe.after_promoted = pipe.first
              /\ pipe.final = pipe.first
        /\ pipe.after_secondary.primary # "Other"
           => /\ pipe.after_promoted = pipe.after_secondary
              /\ pipe.final = pipe.after_secondary

\* a posting the rules resolve from the full text while every later tier has
\* a different label above its thresholds
C1_Witness ==
    /\ Classified
    /\ pipe.has_sklearn
    /\ ~TitleConfident(pipe.position)
    /\ RuleGatesSatisfied(pipe.position)
    /\ pipe.first = Labels("Fisheries and Aquatic", "Wildlife")
    /\ pipe.similarities.top_label = "Entomology"
    /\ pipe.similarities.top_similarity >= ml_override_similarity
    /\ IsSome(pipe.centroids)
    /\ pipe.centroid_similarities.top_label = "Entomology"
    /\ pipe.centroid_similarities.top_similarity
          >= secondary_ml_min_similarity
    /\ pipe.centroid_similarities.top_similarity
          - pipe.centroid_similarities.second_similarity
          >= secondary_ml_min_margin
    /\ pipe.probabilities.available
    /\ pipe.probabilities.top_label = "Wildlife"
    /\ pipe.probabilities.top_conf >= promoted_model_min_confidence
    /\ pipe.final = pipe.first
    /\ pipe.refinement_source = "rule"

-----------------------------------------------------------------------------
(* Claims on the trainer *)

\* C3: promotion_decision returns promote=True whenever force is set, or no
\* promoted metrics exist, or the candidate's macro-F1 exceeds the promoted
\* model's macro-F1 by more than min_macro_f1_improvement.
C3_PromotesOnForceFirstOrMacroGain ==
    IsSome(dec.out) =>
        ((\/ dec.force
          \/ ~IsSome(dec.old)
          \/ dec.new.macro_f1 > Get(dec.old).macro_f1 + dec.min_macro)
         => Get(dec.out).promote)

C3_Witness ==
    /\ IsSome(dec.out)
    /\ ~dec.force
    /\ IsSome(dec.old)
    /\ dec.min_macro = DefaultMinMacroF1Improvement
    /\ dec.new.macro_f1 > Get(dec.old).macro_f1 + dec.min_macro
    /\ dec.new.accuracy < Get(dec.old).accuracy
    /\ Get(dec.out) = [promote |-> TRUE, reason |-> "macro_f1_improved"]

RecordStep == pc = "saved" /\ pc' = "recorded"
SaveStep == pc = "evaluated" /\ pc' = "saved"

\* C5 as claimed: in runs without force-promote the macro-F1 recorded in the
\* manifest's promoted entry never decreases from one promotion to the next.
C5_PromotedMacroF1NeverDecreases ==
    [][(/\ RecordStep
        /\ ~run'.force
        /\ IsSome(manifest.promoted)
        /\ IsSome(manifest'.promoted))
       => Get(manifest'.promoted).metrics.macro_f1
             >= Get(manifest.promoted).metrics.macro_f1]_vars

\* C5 as amended: in a run without force-promote, a candidate whose macro-F1
\* is lower than the promoted model's by more than the run's
\* min_macro_f1_improvement (in absolute value) is persisted but does not
\* become the promoted model, so the promoted macro-F1 decreases by at most
\* that much from one promotion to the next.
C5_PromotedMacroF1DropsAtMostByThreshold ==
    [][(/\ RecordStep
        /\ ~run'.force
        /\ IsSome(manifest.promoted))
       => /\ IsSome(manifest'.promoted)
          /\ Get(manifest'.promoted).metrics.macro_f1
                >= Get(manifest.promoted).metrics.macro_f1
                   - Abs(run'.min_macro)
          /\ (run.metrics.macro_f1
                 < Get(manifest.promoted).metrics.macro_f1
                   - Abs(run'.min_macro)
              => /\ manifest'.promoted = manifest.promoted
                 /\ IsSome(artifacts'[Get(run.candidate).artifact_path]))]_vars

C5_Witness ==
    /\ pc = "recorded"
    /\ ~run.force
    /\ run.min_macro = DefaultMinMacroF1Improvement
    /\ IsSome(run.old_metrics)
    /\ run.metrics.macro_f1 < Get(run.old_metrics).macro_f1 - run.min_macro
    /\ ~run.promote
    /\ Get(manifest.promoted).metrics = Get(run.old_metrics)
    /\ IsSome(artifacts[Get(run.candidate).artifact_path])

\* C6: a run whose gold set, after the rare classes are dropped, has fewer
\* than 8 rows or fewer than 2 classes trains nothing: it writes no artifact,
\* leaves the manifest as it was, and reports trained=false, promoted=false,
\* promotion_reason insufficient_gold_labels.
C6_InsufficientGoldChangesNothing ==
    [][/\ (pc = "idle" /\ pc' # "idle"
           /\ (run'.gold_total < 8 \/ run'.gold_classes < 2))
          => pc' = "skipped"
       /\ (pc = "skipped" \/ pc' = "skipped")
          => /\ artifacts' = artifacts
             /\ manifest' = manifest
       /\ pc = "skipped"
          => /\ pc' = "idle"
             /\ report' = [trained |-> FALSE, promoted |-> FALSE,
                           promotion_reason |-> "insufficient_gold_labels"]
      ]_vars

C6_Witness ==
    /\ pc = "idle"
    /\ report = [trained |-> FALSE, promoted |-> FALSE,
                 promotion_reason |-> "insufficient_gold_labels"]
    /\ IsSome(manifest.promoted)
    /\ Len(manifest.history) = 1

RejectedRuns ==
    {manifest.history[i].timestamp : i \in
        {j \in DOMAIN manifest.history :
            manifest.history[j].status = "candidate_rejected"}}

\* C8: the content of a candidate recorded as candidate_rejected is never
\* loaded, neither by a classifier nor for the trainer's confidence queue.
C8_RejectedCandidateNeverLoaded ==
    /\ IsSome(clf.model) => Get(clf.model).trained_at \notin RejectedRuns
    /\ IsSome(qmodel) => Get(qmodel).trained_at \notin RejectedRuns

\* C9: a model artifact is immutable once written: no later run overwrites
\* the file of an existing model_id.
C9_ArtifactNeverOverwritten ==
    [][\A id \in ModelIds :
          IsSome(artifacts[id]) => artifacts'[id] = artifacts[id]]_vars

-----------------------------------------------------------------------------
(* The trainer's assembly of its training examples: main, lines 927-947.
   A text is kept as whether it is empty; a pseudo example carries the key of
   the posting it was built from. *)

\* gold examples and stored postings one assembly reads
MaxGoldEntries == 2
MaxStoredPostings == 2

\* build_pseudo_examples: grad_conf < 0.75 is skipped (hundredths)
PseudoMinGradConfidence == 75
\* parse_args: --max-pseudo-per-class default 300
DefaultMaxPseudoPerClass == 300

CANONICAL_DISCIPLINES ==
    <<"Environmental Sciences", "Fisheries and Aquatic", "Wildlife",
      "Entomology", "Forestry and Habitat", "Agriculture", "Human Dimensions",
      "Other">>

\* entries of the gold file: combined_text(item) is empty for an entry
\* stored without title, tags, organization and description
GoldEntries ==
    [position_key : {"url::u1", "url::u2"},
     discipline : {"Wildlife", "Entomology"},
     has_text : BOOLEAN]

\* rows of the positions file
PseudoAttributes ==
    {[grad_confidence |-> PseudoMinGradConfidence, has_text |-> TRUE],
     [grad_confidence |-> PseudoMinGradConfidence - 5, has_text |-> TRUE],
     [grad_confidence |-> PseudoMinGradConfidence, has_text |-> FALSE]}

StoredPostings ==
    [identity : {[url |-> "u1", title |-> "t1", organization |-> "o1"],
                 [url |-> "u3", title |-> "t3", organization |-> "o3"]},
     discipline : {"Wildlife", "Entomology", "Other"},
     attributes : PseudoAttributes]

RECURSIVE build_gold_examples(_)
build_gold_examples(labels) ==
    IF labels = <<>> THEN <<>>
    ELSE LET item == Head(labels)
             rest == build_gold_examples(Tail(labels))
         IN IF ~item.has_text \/ item.position_key = "" THEN rest
            ELSE <<[key |-> item.position_key,
                    label |-> normalize_discipline(item.discipline)]>>
                 \o rest

ExampleCount(examples, label) ==
    Cardinality({i \in DOMAIN examples : examples[i].label = label})

\* filter_rare_gold_classes on the examples themselves: the rows of a class
\* with fewer than min_count examples are dropped
filter_rare_gold_examples(examples, min_count) ==
    SelectSeq(examples,
              LAMBDA e : ExampleCount(examples, e.label) >= min_count)

ExampleKeys(examples) == {examples[i].key : i \in DOMAIN examples}

PseudoCandidate(row, excluded) ==
    /\ position_key(row.identity) # ""
    /\ position_key(row.identity) \notin excluded
    /\ normalize_discipline(row.discipline) # "Other"
    /\ row.attributes.grad_confidence >= PseudoMinGradConfidence
    /\ row.attributes.has_text

\* per_class[discipline]: the first max_per_class candidates of the class
PseudoBucket(positions, excluded, max_per_class, discipline) ==
    LET candidates ==
            SelectSeq(positions,
                      LAMBDA row :
                          /\ PseudoCandidate(row, excluded)
                          /\ normalize_discipline(row.discipline) = discipline)
    IN SubSeq(candidates, 1, Min(max_per_class, Len(candidates)))

RECURSIVE PseudoByDiscipline(_, _, _, _)
PseudoByDiscipline(disciplines, positions, excluded, max_per_class) ==
    IF disciplines = <<>> THEN <<>>
    ELSE LET bucket == PseudoBucket(positions, excluded, max_per_class,
                                    Head(disciplines))
         IN [i \in DOMAIN bucket |->
                [key |-> position_key(bucket[i].identity),
                 label |-> Head(disciplines)]]
            \o PseudoByDiscipline(Tail(disciplines), positions, excluded,
                                  max_per_class)

build_pseudo_examples(positions, excluded_keys, max_per_class) ==
    PseudoByDiscipline(CANONICAL_DISCIPLINES, positions, excluded_keys,
                       max_per_class)

SeqsUpTo(kinds, n) == UNION {[1..m -> kinds] : m \in 0..n}

AssemblyInputs ==
    [labels : SeqsUpTo(GoldEntries, MaxGoldEntries),
     positions : SeqsUpTo(StoredPostings, MaxStoredPostings),
     no_pseudo : BOOLEAN,
     max_pseudo_per_class : {1, DefaultMaxPseudoPerClass},
     out : {None}]

InitAssembly ==
    /\ IdleTrainer
    /\ dec = IdleDec
    /\ grad = IdleGrad
    /\ gold = IdleGold
    /\ pipe = IdlePipe
    /\ assembly \in AssemblyInputs
    /\ queue = IdleQueue
    /\ review = IdleReview
    /\ loader = IdleLoader
    /\ batch = IdleBatch
    /\ ledger = IdleLedger
    /\ rerun = IdleRerun
    /\ evaluation = IdleEvaluation

\* main, lines 927-947: gold examples, rare-class filter, pseudo examples
AssembleExamples ==
    /\ ~IsSome(assembly.out)
    /\ LET examples == filter_rare_gold_examples(
                           build_gold_examples(assembly.labels), 2)
           gold_keys == ExampleKeys(examples)
           pseudo == IF assembly.no_pseudo THEN <<>>
                     ELSE build_pseudo_examples(assembly.positions, gold_keys,
                                                assembly.max_pseudo_per_class)
       IN assembly' = [assembly EXCEPT !.out =
                          Some([gold |-> examples, gold_keys |-> gold_keys,
                                pseudo |-> pseudo])]
    /\ UNCHANGED trainerVars
    /\ UNCHANGED <<dec, grad, gold, pipe, queue, review, loader, batch, ledger, rerun, evaluation>>

NextAssembly == AssembleExamples

SpecAssembly == InitAssembly /\ [][NextAssembly]_vars

\* C12: no stored posting whose position_key has a label in the gold store
\* is used as a pseudo-labelled example, whatever the class or the text of
\* that label.
C12_NoGoldKeyAmongPseudoExamples ==
    IsSome(assembly.out) =>
        \A i \in DOMAIN Get(assembly.out).pseudo :
            Get(assembly.out).pseudo[i].key \notin LabelKeys(assembly.labels)

-----------------------------------------------------------------------------
(* The confidence queue builders: build_discipline_confidence_queue of the
   dashboard script and build_confidence_queue of the trainer, applied to the
   same batch of rows.  Confidences and margins are in hundredths. *)

\* rows of one batch
MaxQueueRows == 2

\* thresholds of the reason codes, the same literals in both builders
SuggestedRelabelMinConfidence == 60
SuggestedRelabelMinMargin == 8
DisagreementMinConfidence == 70
DisagreementMinMargin == 10
\* predict_from_artifact: secondary if second_conf >= 0.35
ArtifactSecondaryMinConfidence == 35

\* _build_row_key of the dashboard script; location and published_date are
\* empty in the drawn rows
dashboard_build_row_key(row) ==
    IF row.title # "" /\ row.organization # ""
    THEN "title_org::" \o row.title \o "::" \o row.organization \o "::::"
    ELSE IF row.url # "" THEN "url::" \o row.url
    ELSE IF row.title # "" THEN "title::" \o row.title \o "::"
    ELSE ""

\* the order of the drawn titles as Python compares strings
TitleOrder == ("" :> 0) @@ ("t1" :> 1) @@ ("t2" :> 2)

QueueIdentities ==
    {[url |-> "u1", title |-> "t1", organization |-> "o1"],
     [url |-> "", title |-> "t2", organization |-> "o2"],
     [url |-> "u3", title |-> "t2", organization |-> ""]}

\* best two class probabilities of the model for the text of a row
QueueProbabilities ==
    {[top_label |-> "Wildlife", second_label |-> "Entomology",
      top_conf |-> DisagreementMinConfidence + 10, second_conf |-> 10],
     [top_label |-> "Wildlife", second_label |-> "Entomology",
      top_conf |-> SuggestedRelabelMinConfidence + 5,
      second_conf |-> ArtifactSecondaryMinConfidence],
     [top_label |-> "Wildlife", second_label |-> "Entomology",
      top_conf |-> SuggestedRelabelMinConfidence - 5, second_conf |-> 40],
     [top_label |-> "Other", second_label |-> "Wildlife",
      top_conf |-> DisagreementMinConfidence + 10, second_conf |-> 10]}

QueueRows ==
    [identity : QueueIdentities,
     discipline_primary : {"Other", "Wildlife", "Entomology"},
     probabilities : QueueProbabilities]

\* predict_from_artifact, on a row with text
predict_from_artifact(probabilities) ==
    [primary |-> probabilities.top_label,
     secondary |-> IF probabilities.second_conf
                        >= ArtifactSecondaryMinConfidence
                   THEN probabilities.second_label ELSE "",
     confidence |-> probabilities.top_conf,
     margin |-> probabilities.top_conf - probabilities.second_conf]

\* variant: a posting labelled Other that the model gives no confident
\* suggestion for gets no second reason
QueueReasons_without_low_signal(final_primary, model_available, model_primary, model_conf, model_margin) ==
    (IF final_primary = "Other" THEN <<"final_other">> ELSE <<>>)
    \o (IF ~model_available /\ final_primary = "Other"
        THEN <<"no_promoted_model">> ELSE <<>>)
    \o (IF ~model_available THEN <<>>
        ELSE IF final_primary = "Other"
        THEN IF /\ model_primary # "Other"
                /\ model_conf >= SuggestedRelabelMinConfidence
                /\ model_margin >= SuggestedRelabelMinMargin
             THEN <<"suggested_relabel">>
             ELSE <<>>
        ELSE IF /\ model_primary # ""
                /\ model_primary # "Other"
                /\ model_primary # final_primary
                /\ model_conf >= DisagreementMinConfidence
                /\ model_margin >= DisagreementMinMargin
        THEN <<"model_rule_disagreement">>
        ELSE <<>>)

\* the reason codes of a row, in the order the builders append them;
\* the two builders test the same conditions
QueueReasons(final_primary, model_available, model_primary, model_conf, model_margin) ==
    (IF final_primary = "Other" THEN <<"final_other">> ELSE <<>>)
    \o (IF ~model_available /\ final_primary = "Other"
        THEN <<"no_promoted_model">> ELSE <<>>)
    \o (IF ~model_available THEN <<>>
        ELSE IF final_primary = "Other"
        THEN IF /\ model_primary # "Other"
                /\ model_conf >= SuggestedRelabelMinConfidence
                /\ model_margin >= SuggestedRelabelMinMargin
             THEN <<"suggested_relabel">>
             ELSE <<"still_other_low_signal">>
        ELSE IF /\ model_primary # ""
                /\ model_primary # "Other"
                /\ model_primary # final_primary
                /\ model_conf >= DisagreementMinConfidence
                /\ model_margin >= DisagreementMinMargin
        THEN <<"model_rule_disagreement">>
        ELSE <<>>)

Contains(seq, x) == \E i \in DOMAIN seq : seq[i] = x

\* one row of build_discipline_confidence_queue: its item, None when the row
\* has no reason
dashboard_queue_item(row, model_available) ==
    LET final_primary == normalize_discipline(row.discipline_primary)
        pred == predict_with_promoted_model(
                    [available |-> model_available,
                     top_label |-> row.probabilities.top_label,
                     second_label |-> row.probabilities.second_label,
                     top_conf |-> row.probabilities.top_conf,
                     second_conf |-> row.probabilities.second_conf])
        model_primary ==
            normalize_discipline(IF pred.primary = "" THEN "Other"
                                 ELSE pred.primary)
        model_secondary == normalize_discipline(pred.secondary)
        reasons == QueueReasons(final_primary, pred.available, model_primary,
                                pred.confidence, pred.margin)
        severity ==
            Len(reasons)
            + (IF Contains(reasons, "model_rule_disagreement") THEN 1 ELSE 0)
            + (IF Contains(reasons, "final_other") THEN 1 ELSE 0)
    IN IF reasons = <<>> THEN None
       ELSE Some([severity |-> severity,
                  reasons |-> reasons,
                  position_key |-> dashboard_build_row_key(row.identity),
                  discipline_final |-> final_primary,
                  discipline_model_suggested |-> model_primary,
                  discipline_model_secondary |->
                      IF /\ model_secondary # "Other"
                         /\ model_secondary # model_primary
                      THEN model_secondary ELSE "",
                  model_confidence |-> pred.confidence,
                  model_margin |-> pred.margin,
                  title |-> row.identity.title,
                  organization |-> row.identity.organization,
                  url |-> row.identity.url])

\* one row of the trainer's build_confidence_queue
trainer_queue_item(row, model_available) ==
    LET final_disc == normalize_discipline(row.discipline_primary)
        pred == IF model_available
                THEN predict_from_artifact(row.probabilities)
                ELSE [primary |-> "Other", secondary |-> "",
                      confidence |-> 0, margin |-> 0]
        reasons == QueueReasons(final_disc, model_available, pred.primary,
                                pred.confidence, pred.margin)
        severity ==
            Len(reasons)
            + (IF Contains(reasons, "final_other") THEN 1 ELSE 0)
    IN IF reasons = <<>> THEN None
       ELSE Some([severity |-> severity,
                  reasons |-> reasons,
                  position_key |-> position_key(row.identity),
                  discipline_final |-> final_disc,
                  discipline_model_suggested |-> pred.primary,
                  discipline_model_secondary |-> pred.secondary,
                  model_confidence |-> pred.confidence,
                  model_margin |-> pred.margin,
                  title |-> row.identity.title,
                  organization |-> row.identity.organization,
                  url |-> row.identity.url])

\* the sort key of an item: (severity, -model_confidence, title)
QueueSortKey(item) ==
    <<item.severity, 0 - item.model_confidence, TitleOrder[item.title]>>

KeyGreater(a, b) ==
    \/ a[1] > b[1]
    \/ a[1] = b[1] /\ a[2] > b[2]
    \/ a[1] = b[1] /\ a[2] = b[2] /\ a[3] > b[3]

\* queue.sort(key=..., reverse=True): larger keys first, items of equal key
\* in the order they were appended
RECURSIVE InsertByKeyDescending(_, _)
InsertByKeyDescending(item, sorted) ==
    IF sorted = <<>> THEN <<item>>
    ELSE IF KeyGreater(QueueSortKey(item), QueueSortKey(Head(sorted)))
    THEN <<item>> \o sorted
    ELSE <<Head(sorted)>> \o InsertByKeyDescending(item, Tail(sorted))

RECURSIVE SortQueue(_)
SortQueue(items) ==
    IF items = <<>> THEN <<>>
    ELSE InsertByKeyDescending(
             items[Len(items)],
             SortQueue(SubSeq(items, 1, Len(items) - 1)))

RECURSIVE DashboardItems(_, _)
DashboardItems(rows, model_available) ==
    IF rows = <<>> THEN <<>>
    ELSE dashboard_queue_item(Head(rows), model_available)
         \o DashboardItems(Tail(rows), model_available)

RECURSIVE TrainerItems(_, _)
TrainerItems(rows, model_available) ==
    IF rows = <<>> THEN <<>>
    ELSE trainer_queue_item(Head(rows), model_available)
         \o TrainerItems(Tail(rows), model_available)

build_discipline_confidence_queue(rows, model_available) ==
    SortQueue(DashboardItems(rows, model_available))

build_confidence_queue(rows, model_available) ==
    SortQueue(TrainerItems(rows, model_available))

QueueInputs ==
    [rows : SeqsUpTo(QueueRows, MaxQueueRows),
     model_available : BOOLEAN,
     dashboard : {None},
     trainer : {None}]

InitQueue ==
    /\ IdleTrainer
    /\ dec = IdleDec
    /\ grad = IdleGrad
    /\ gold = IdleGold
    /\ pipe = IdlePipe
    /\ assembly = IdleAssembly
    /\ queue \in QueueInputs
    /\ review = IdleReview
    /\ loader = IdleLoader
    /\ batch = IdleBatch
    /\ ledger = IdleLedger
    /\ rerun = IdleRerun
    /\ evaluation = IdleEvaluation

\* sanitize_and_classify_positions, lines 413-416: the dashboard's queue
BuildDashboardQueue ==
    /\ ~IsSome(queue.dashboard)
    /\ queue' = [queue EXCEPT !.dashboard =
                    Some(build_discipline_confidence_queue(
                             queue.rows, queue.model_available))]
    /\ UNCHANGED trainerVars
    /\ UNCHANGED <<dec, grad, gold, pipe, assembly, review, loader, batch, ledger, rerun, evaluation>>

\* main of the trainer, line 1027: the trainer's queue
BuildTrainerQueue ==
    /\ ~IsSome(queue.trainer)
    /\ queue' = [queue EXCEPT !.trainer =
                    Some(build_confidence_queue(
                             queue.rows, queue.model_available))]
    /\ UNCHANGED trainerVars
    /\ UNCHANGED <<dec, grad, gold, pipe, assembly, review, loader, batch, ledger, rerun, evaluation>>

NextQueue == BuildDashboardQueue \/ BuildTrainerQueue

SpecQueue == InitQueue /\ [][NextQueue]_vars

-----------------------------------------------------------------------------
(* One DisciplineClassifier instance and the files of the promoted model.
   A file is given by what reading it does. *)

\* calls of predict_with_promoted_model in one behaviour
MaxCalls == 3

\* manifest.json: absent, not JSON, without a promoted artifact path, or
\* naming a promoted artifact
ManifestFiles == {"missing", "corrupt", "no_artifact_path", "promoted"}

\* the artifact the manifest names: absent (also at the fallback path), not
\* a pickle, a pickle of something else than a dict, a dict without one of
\* the two fields, or a model
ArtifactFiles ==
    {"missing", "corrupt", "not_a_dict", "no_vectorizer", "no_classifier",
     "model_a", "model_b"}

ModelFiles == [manifest : ManifestFiles, artifact : ArtifactFiles]

\* lines 1065-1101, the body of the try statement: the value it returns, or
\* that json.load or pickle.load raised
read_promoted_model(files) ==
    IF files.manifest = "missing" THEN [raised |-> FALSE, model |-> None]
    ELSE IF files.manifest = "corrupt" THEN [raised |-> TRUE, model |-> None]
    ELSE IF files.manifest = "no_artifact_path"
    THEN [raised |-> FALSE, model |-> None]
    ELSE IF files.artifact = "missing"
    THEN [raised |-> FALSE, model |-> None]
    ELSE IF files.artifact = "corrupt" THEN [raised |-> TRUE, model |-> None]
    ELSE IF files.artifact \in {"not_a_dict", "no_vectorizer",
                                "no_classifier"}
    THEN [raised |-> FALSE, model |-> None]
    ELSE [raised |-> FALSE, model |-> Some(files.artifact)]

\* except Exception: return None
try_read_promoted_model(files) ==
    [raised |-> FALSE, model |-> read_promoted_model(files).model]

\* variant: the files are read at every call
load_promoted_model_uncached(instance, files, has_sklearn) ==
    IF ~has_sklearn
    THEN [instance |-> [checked |-> TRUE, model |-> instance.model],
          raised |-> FALSE, model |-> None, manifest_reads |-> 0]
    ELSE LET out == try_read_promoted_model(files)
         IN [instance |-> [checked |-> TRUE,
                           model |-> IF IsSome(out.model) THEN out.model
                                     ELSE instance.model],
             raised |-> out.raised, model |-> out.model,
             manifest_reads |-> IF files.manifest = "missing" THEN 0 ELSE 1]

\* variant: the artifact read is returned but not kept on the instance
load_promoted_model_without_storing(instance, files, has_sklearn) ==
    IF instance.checked
    THEN [instance |-> instance, raised |-> FALSE, model |-> instance.model,
          manifest_reads |-> 0]
    ELSE IF ~has_sklearn
    THEN [instance |-> [checked |-> TRUE, model |-> instance.model],
          raised |-> FALSE, model |-> None, manifest_reads |-> 0]
    ELSE LET out == try_read_promoted_model(files)
         IN [instance |-> [checked |-> TRUE, model |-> instance.model],
             raised |-> out.raised, model |-> out.model,
             manifest_reads |-> IF files.manifest = "missing" THEN 0 ELSE 1]

\* _load_promoted_model_if_needed on an instance: the instance after the
\* call, what the call returns and how often it opened the manifest
load_promoted_model(instance, files, has_sklearn) ==
    IF instance.checked
    THEN [instance |-> instance, raised |-> FALSE, model |-> instance.model,
          manifest_reads |-> 0]
    ELSE IF ~has_sklearn
    THEN [instance |-> [checked |-> TRUE, model |-> instance.model],
          raised |-> FALSE, model |-> None, manifest_reads |-> 0]
    ELSE LET out == try_read_promoted_model(files)
         IN [instance |-> [checked |-> TRUE,
                           model |-> IF IsSome(out.model) THEN out.model
                                     ELSE instance.model],
             raised |-> out.raised, model |-> out.model,
             manifest_reads |-> IF files.manifest = "missing" THEN 0 ELSE 1]

\* the class probabilities a loaded model gives the posting the tier is
\* followed for
LoadedModelProbabilities ==
    [available |-> TRUE, top_label |-> "Wildlife",
     second_label |-> "Entomology",
     top_conf |-> promoted_model_min_confidence,
     second_conf |-> promoted_model_secondary_min_confidence]

NoCall == [files |-> None, raised |-> FALSE, model |-> None]

InitLoader ==
    /\ IdleTrainer
    /\ dec = IdleDec
    /\ grad = IdleGrad
    /\ gold = IdleGold
    /\ pipe = IdlePipe
    /\ assembly = IdleAssembly
    /\ queue = IdleQueue
    /\ review = IdleReview
    /\ batch = IdleBatch
    /\ ledger = IdleLedger
    /\ rerun = IdleRerun
    /\ evaluation = IdleEvaluation
    /\ \E files \in ModelFiles, has_sklearn \in BOOLEAN :
          loader = [files |-> files, has_sklearn |-> has_sklearn,
                    instance |-> FreshClassifier, calls |-> 0,
                    manifest_reads |-> 0, first |-> NoCall, last |-> NoCall,
                    refined |-> Labels("Other", "")]

\* the trainer, or anything else, rewrites the files while the process runs
RewriteModelFiles ==
    /\ \E files \in ModelFiles \ {loader.files} :
          loader' = [loader EXCEPT !.files = files]
    /\ UNCHANGED trainerVars
    /\ UNCHANGED <<dec, grad, gold, pipe, assembly, queue, review, batch, ledger, rerun, evaluation>>

\* refine_other_labels_with_promoted_model on a posting labelled Other:
\* predict_with_promoted_model loads the model if needed
RefineWithPromotedModel ==
    /\ loader.calls < MaxCalls
    /\ LET out == load_promoted_model(loader.instance, loader.files,
                                      loader.has_sklearn)
           call == [files |-> Some(loader.files), raised |-> out.raised,
                    model |-> out.model]
           probabilities ==
               IF ~out.raised /\ IsSome(out.model)
               THEN LoadedModelProbabilities ELSE NoProbabilities
       IN loader' = [loader EXCEPT
                        !.instance = out.instance,
                        !.calls = @ + 1,
                        !.manifest_reads = @ + out.manifest_reads,
                        !.first = IF loader.calls = 0 THEN call ELSE @,
                        !.last = call,
                        !.refined =
                            refine_other_labels_with_promoted_model(
                                Labels("Other", ""), probabilities,
                                loader.has_sklearn)]
    /\ UNCHANGED trainerVars
    /\ UNCHANGED <<dec, grad, gold, pipe, assembly, queue, review, batch, ledger, rerun, evaluation>>

NextLoader == RewriteModelFiles \/ RefineWithPromotedModel

SpecLoader == InitLoader /\ [][NextLoader]_vars

-----------------------------------------------------------------------------
(* sanitize_and_classify_positions on a batch.  A row is given by what the
   first-pass loop does with it. *)

\* rows of one batch
MaxBatchRows == 4

\* an element of rows: a dict of a graduate posting, a dict of a posting the
\* detector rejects, or a JSON value that is not a dict (null, a string),
\* on which row.get raises AttributeError
BatchRowKinds == {"graduate", "not_graduate", "not_a_dict"}

BatchInputs ==
    [rows : UNION {[1..n -> BatchRowKinds] : n \in 0..MaxBatchRows},
     out : {None}]

\* lines 327-349, from row i on: the indices of the rows kept for the later
\* passes, or that an exception left the loop (nothing encloses the calls
\* of the loop body in a try statement)
RECURSIVE FirstPass(_, _)
FirstPass(rows, i) ==
    IF i > Len(rows) THEN [raised |-> FALSE, kept |-> <<>>]
    ELSE IF rows[i] = "not_a_dict" THEN [raised |-> TRUE, kept |-> <<>>]
    ELSE LET rest == FirstPass(rows, i + 1)
         IN IF rest.raised THEN rest
            ELSE IF rows[i] = "not_graduate" THEN rest
            ELSE [raised |-> FALSE, kept |-> <<i>> \o rest.kept]

\* the call: the rows it returns (by their index in the batch), none when an
\* exception leaves it
sanitize_batch(rows) ==
    LET first_pass == FirstPass(rows, 1)
    IN IF first_pass.raised THEN [raised |-> TRUE, returned |-> <<>>]
       ELSE [raised |-> FALSE, returned |-> first_pass.kept]

InitBatch ==
    /\ IdleTrainer
    /\ dec = IdleDec
    /\ grad = IdleGrad
    /\ gold = IdleGold
    /\ pipe = IdlePipe
    /\ assembly = IdleAssembly
    /\ queue = IdleQueue
    /\ review = IdleReview
    /\ loader = IdleLoader
    /\ batch \in BatchInputs
    /\ ledger = IdleLedger
    /\ rerun = IdleRerun
    /\ evaluation = IdleEvaluation

SanitizeBatch ==
    /\ ~IsSome(batch.out)
    /\ batch' = [batch EXCEPT !.out = Some(sanitize_batch(batch.rows))]
    /\ UNCHANGED trainerVars
    /\ UNCHANGED <<dec, grad, gold, pipe, assembly, queue, review, loader, ledger, rerun, evaluation>>

NextBatch == SanitizeBatch

SpecBatch == InitBatch /\ [][NextBatch]_vars

-----------------------------------------------------------------------------
(* update_manifest on a manifest that earlier runs have filled.  all is every
   event ever appended, oldest first. *)

\* trained runs that append to the manifest
MaxAppends == 3

\* the event run number i (<= 0) left in the history
EarlierEvent(i) ==
    ManifestEvent(i, CandidateMetadata(0, i, NotTrainedMetrics), FALSE,
                  "validation_not_improved")

\* the history after n earlier runs
EarlierHistory(n) == [i \in 1..n |-> EarlierEvent(i - n)]

InitLedger ==
    /\ IdleTrainer
    /\ dec = IdleDec
    /\ grad = IdleGrad
    /\ gold = IdleGold
    /\ pipe = IdlePipe
    /\ assembly = IdleAssembly
    /\ queue = IdleQueue
    /\ review = IdleReview
    /\ loader = IdleLoader
    /\ batch = IdleBatch
    /\ rerun = IdleRerun
    /\ evaluation = IdleEvaluation
    /\ \E n \in {0, HistoryCap - 1, HistoryCap} :
          ledger = [manifest |-> [promoted |-> None,
                                  history |-> EarlierHistory(n)],
                    all |-> EarlierHistory(n),
                    appends |-> 0]

\* main, lines 1002-1015, of a trained run: the decision is appended
AppendEvent ==
    /\ ledger.appends < MaxAppends
    /\ \E promote \in BOOLEAN, model_id \in ModelIds :
          LET timestamp == ledger.appends + 1
              metadata == CandidateMetadata(model_id, timestamp,
                                            NotTrainedMetrics)
              reason == IF promote THEN "force_promote"
                        ELSE "validation_not_improved"
          IN ledger' =
                [manifest |-> update_manifest(ledger.manifest, metadata,
                                              promote, reason, timestamp),
                 all |-> Append(ledger.all,
                                ManifestEvent(timestamp, metadata, promote,
                                              reason)),
                 appends |-> ledger.appends + 1]
    /\ UNCHANGED trainerVars
    /\ UNCHANGED <<dec, grad, gold, pipe, assembly, queue, review, loader, batch, rerun, evaluation>>

NextLedger == AppendEvent

SpecLedger == InitLedger /\ [][NextLedger]_vars

-----------------------------------------------------------------------------
(* One batch classified twice while the manifest and the artifact stay as
   they are.  The batch is followed for one posting; the first run starts on
   a new classifier instance, the second on that instance or on a new one. *)

\* the posting followed: its texts as the detector reads them, as the
\* classifier reads them, and the similarities the two learned tiers find
RerunRows ==
    [grad_position :
        {[title_text |-> text, rest_text |-> {}] :
            text \in {{"graduate research assistantship"},
                      {"fellowship", "stipend"}, {"professor"}}},
     position : {pos \in Positions : pos.title_scores = NoScores},
     similarities : {sim \in MLSimilarities : sim.top_label = "Wildlife"},
     others : {other \in OtherRows : other.count # 7},
     centroid_similarities :
        {sim \in CentroidSimilarities({"Wildlife", "Entomology"}) :
            /\ sim.top_label = "Entomology"
            /\ sim.second_similarity
                  = secondary_ml_min_similarity - secondary_ml_min_margin}]

\* sanitize_and_classify_positions for the followed posting on a classifier
\* instance: what the output row carries (None when the posting is dropped)
\* and the instance after the run
classify_row(instance, files, has_sklearn, row) ==
    LET decision == is_graduate_position(row.grad_position)
        loaded == load_promoted_model(instance, files, has_sklearn)
        probabilities ==
            IF IsSome(loaded.model) THEN LoadedModelProbabilities
            ELSE NoProbabilities
        first == NormalizeLabels(
                     classify_position(
                         row.position,
                         IF has_sklearn THEN row.similarities
                         ELSE NoSimilarities,
                         has_sklearn))
        centroids == build_secondary_ml_artifacts(first.primary, row.others,
                                                  has_sklearn)
        after_secondary ==
            refine_other_labels_with_secondary_ml(
                first, centroids, row.centroid_similarities, has_sklearn)
        after_promoted ==
            refine_other_labels_with_promoted_model(
                after_secondary, probabilities, has_sklearn)
        final == NormalizeLabels(after_promoted)
    IN [instance |->
            IF decision.is_graduate \/ row.others.count > 0
            THEN loaded.instance ELSE instance,
        out |->
            IF ~decision.is_graduate THEN None
            ELSE Some([is_graduate_position |-> TRUE,
                       position_type |-> decision.classification_type,
                       grad_confidence |-> decision.confidence,
                       discipline_primary |-> final.primary,
                       discipline_secondary |-> final.secondary,
                       discipline_refinement_source |->
                           RefinementSource(first.primary,
                                            after_secondary.primary,
                                            final.primary)])]

InitRerun ==
    /\ IdleTrainer
    /\ dec = IdleDec
    /\ grad = IdleGrad
    /\ gold = IdleGold
    /\ pipe = IdlePipe
    /\ assembly = IdleAssembly
    /\ queue = IdleQueue
    /\ review = IdleReview
    /\ loader = IdleLoader
    /\ batch = IdleBatch
    /\ ledger = IdleLedger
    /\ evaluation = IdleEvaluation
    /\ \E files \in ModelFiles, has_sklearn \in BOOLEAN, row \in RerunRows :
          rerun = [files |-> files, has_sklearn |-> has_sklearn,
                   row |-> row, runs |-> 0, reused |-> FALSE,
                   instance |-> FreshClassifier,
                   first |-> None, second |-> None]

\* the first run, on a new DisciplineClassifier
FirstRun ==
    /\ rerun.runs = 0
    /\ \E result \in {classify_row(FreshClassifier, rerun.files,
                                   rerun.has_sklearn, rerun.row)} :
          rerun' = [rerun EXCEPT !.runs = 1,
                                 !.instance = result.instance,
                                 !.first = <<result.out>>]
    /\ UNCHANGED trainerVars
    /\ UNCHANGED <<dec, grad, gold, pipe, assembly, queue, review, loader, batch, ledger, evaluation>>

\* the second run on the instance of the first, with its cached model state
SecondRunReusingInstance ==
    /\ rerun.runs = 1
    /\ \E result \in {classify_row(rerun.instance, rerun.files,
                                   rerun.has_sklearn, rerun.row)} :
          rerun' = [rerun EXCEPT !.runs = 2, !.reused = TRUE,
                                 !.instance = result.instance,
                                 !.second = <<result.out>>]
    /\ UNCHANGED trainerVars
    /\ UNCHANGED <<dec, grad, gold, pipe, assembly, queue, review, loader, batch, ledger, evaluation>>

\* the second run on a new DisciplineClassifier
SecondRunOnFreshInstance ==
    /\ rerun.runs = 1
    /\ \E result \in {classify_row(FreshClassifier, rerun.files,
                                   rerun.has_sklearn, rerun.row)} :
          rerun' = [rerun EXCEPT !.runs = 2,
                                 !.instance = result.instance,
                                 !.second = <<result.out>>]
    /\ UNCHANGED trainerVars
    /\ UNCHANGED <<dec, grad, gold, pipe, assembly, queue, review, loader, batch, ledger, evaluation>>

NextRerun == FirstRun \/ SecondRunReusingInstance \/ SecondRunOnFreshInstance

SpecRerun == InitRerun /\ [][NextRerun]_vars

-----------------------------------------------------------------------------
(* The evaluation strategy main chooses for the gold set of a run, and
   whether scikit-learn can carry it out. *)

\* rows a class can have in the gold file
MaxClassCount == 6

EvalClasses ==
    {"Wildlife", "Entomology", "Fisheries and Aquatic", "Agriculture"}

CeilDiv(a, b) == (a + b - 1) \div b

\* the smallest count of a class that is present
MinClassCount(counts) ==
    LET present == GoldCounterClasses(counts)
    IN CHOOSE m \in {counts[c] : c \in present} :
           \A c \in present : m <= counts[c]

\* evaluate_holdout, lines 553-567: train_test_split(test_size=0.25,
\* stratify=labels) takes ceil(0.25 n) rows for validation and the rest for
\* training, and raises ValueError when either part has fewer rows than
\* there are classes
evaluate_holdout(counts) ==
    LET n == GoldTotal(counts)
        classes == Cardinality(GoldCounterClasses(counts))
        validation == CeilDiv(n, 4)
    IN [mode |-> "holdout", validation_rows |-> validation,
        training_rows |-> n - validation, folds |-> 0,
        raised |-> validation < classes \/ n - validation < classes]

\* evaluate_cross_validation, lines 588-604: StratifiedKFold(n_splits=folds)
\* raises ValueError when folds exceeds the count of every class
evaluate_cross_validation(counts) ==
    LET folds == Max(2, Min(5, MinClassCount(counts)))
    IN [mode |-> "cross_validation", validation_rows |-> 0,
        training_rows |-> 0, folds |-> folds,
        raised |-> \A c \in GoldCounterClasses(counts) : folds > counts[c]]

InitEvaluation ==
    /\ IdleTrainer
    /\ dec = IdleDec
    /\ grad = IdleGrad
    /\ gold = IdleGold
    /\ pipe = IdlePipe
    /\ assembly = IdleAssembly
    /\ queue = IdleQueue
    /\ review = IdleReview
    /\ loader = IdleLoader
    /\ batch = IdleBatch
    /\ ledger = IdleLedger
    /\ rerun = IdleRerun
    /\ \E raw \in [EvalClasses -> 0..MaxClassCount] :
          evaluation = [raw |-> raw, out |-> None]

\* main, lines 926-984: the gold set is filtered, tested for trainability
\* and evaluated
EvaluateCandidate ==
    /\ ~IsSome(evaluation.out)
    /\ \E counts \in {filter_rare_gold_classes(evaluation.raw, 2)} :
          evaluation' =
             [evaluation EXCEPT !.out =
                 Some([counts |-> counts,
                       trainable |-> Trainable(counts),
                       result |->
                          IF ~Trainable(counts)
                          THEN [mode |-> "not_trained",
                                validation_rows |-> 0, training_rows |-> 0,
                                folds |-> 0, raised |-> FALSE]
                          ELSE IF EvaluationMode(counts) = "holdout"
                          THEN evaluate_holdout(counts)
                          ELSE evaluate_cross_validation(counts)])]
    /\ UNCHANGED trainerVars
    /\ UNCHANGED <<dec, grad, gold, pipe, assembly, queue, review, loader, batch, ledger, rerun>>

NextEvaluation == EvaluateCandidate

SpecEvaluation == InitEvaluation /\ [][NextEvaluation]_vars

-----------------------------------------------------------------------------
(* Claims on the gold label store *)

SkippedRow(row) ==
    LET action == resolve_review_action(row.cells.review_status)
    IN \/ action = "invalid"
       \/ action = "skip"
       \/ action = "override" /\ row.cells.reviewed_discipline = ""
       \/ /\ action = "accept_model"
          /\ normalize_discipline(row.cells.discipline_model_suggested)
                = "Other"

ProcessedRow(row) == ~SkippedRow(row)

\* C17: a row of a review import changes the gold labels only if its status
\* is accept-model, keep-final or override; a row with an invalid status, a
\* skip status, an override without reviewed_discipline or an accept-model
\* with suggestion Other leaves the labels as they were; and the labels
\* written are those the remaining rows alone would give.
C17_DefectiveRowsAreSkipped ==
    IsSome(review.out) =>
        /\ \A i \in DOMAIN review.rows :
              LET before == import_reviews(review.labels,
                                           SubSeq(review.rows, 1, i - 1))
                  after == import_reviews(review.labels,
                                          SubSeq(review.rows, 1, i))
              IN /\ after # before =>
                       resolve_review_action(
                           review.rows[i].cells.review_status)
                           \in {"accept_model", "keep_final", "override"}
                 /\ SkippedRow(review.rows[i]) => after = before
        /\ Get(review.out)
              = import_reviews(review.labels,
                               SelectSeq(review.rows, ProcessedRow))

\* an invalid row for the key of a stored label, followed by an override for
\* the same key that is written
C17_Witness ==
    /\ IsSome(review.out)
    /\ Len(review.rows) = 2
    /\ review.labels # <<>>
    /\ review.rows[1].cells.review_status = "done"
    /\ build_row_key(review.rows[1]) = "url::u1"
    /\ review.rows[2].cells.review_status = "set"
    /\ build_row_key(review.rows[2]) = "url::u1"
    /\ Get(review.out)
          = <<[position_key |-> "url::u1",
               discipline |-> "Fisheries and Aquatic",
               source |-> "discipline_queue_review"]>>

-----------------------------------------------------------------------------
(* Claims on position keys and the confidence queue *)

ItemIdentity(item) ==
    [url |-> item.url, title |-> item.title,
     organization |-> item.organization]

\* C13: the trainer's position_key, the dashboard queue's _build_row_key and
\* the review importer's build_row_key give the same key for the same
\* posting: the key of every item of the dashboard's queue is the key the
\* trainer computes for the posting, and so is the key the importer takes
\* from the reviewed queue row.
C13_SameKeyInEveryComponent ==
    IsSome(queue.dashboard) =>
        \A i \in DOMAIN Get(queue.dashboard) :
            LET item == Get(queue.dashboard)[i]
            IN /\ item.position_key = position_key(ItemIdentity(item))
               /\ build_row_key([key |-> [position_key |-> item.position_key,
                                          identity |-> ItemIdentity(item)]])
                     = position_key(ItemIdentity(item))

SeverityByReasons(item) ==
    Len(item.reasons)
    + (IF Contains(item.reasons, "model_rule_disagreement") THEN 1 ELSE 0)
    + (IF Contains(item.reasons, "final_other") THEN 1 ELSE 0)

\* C15: in both queue builders the severity of every item is the number of
\* its reason codes, plus 1 if model_rule_disagreement is among them, plus 1
\* if final_other is among them.
C15_SeverityCountsReasons ==
    /\ IsSome(queue.dashboard) =>
          \A i \in DOMAIN Get(queue.dashboard) :
              Get(queue.dashboard)[i].severity
                  = SeverityByReasons(Get(queue.dashboard)[i])
    /\ IsSome(queue.trainer) =>
          \A i \in DOMAIN Get(queue.trainer) :
              Get(queue.trainer)[i].severity
                  = SeverityByReasons(Get(queue.trainer)[i])

\* a before b in a queue sorted by severity descending, then model
\* confidence descending, then title
InQueueOrder(a, b) ==
    \/ a.severity > b.severity
    \/ /\ a.severity = b.severity
       /\ a.model_confidence > b.model_confidence
    \/ /\ a.severity = b.severity
       /\ a.model_confidence = b.model_confidence
       /\ TitleOrder[a.title] <= TitleOrder[b.title]

SortedAsSpecified(items) ==
    \A i, j \in DOMAIN items : i < j => InQueueOrder(items[i], items[j])

\* C16: both builders return the queue sorted by severity descending, among
\* items of equal severity by model confidence descending, among items equal
\* in both by title.
C16_QueueSortedBySeverityConfidenceTitle ==
    /\ IsSome(queue.dashboard) => SortedAsSpecified(Get(queue.dashboard))
    /\ IsSome(queue.trainer) => SortedAsSpecified(Get(queue.trainer))

-----------------------------------------------------------------------------
(* Claims on the labels of a classified posting *)

\* the second-ranked label of a tier, when its score is above zero
SecondScored(ranking, score) ==
    IF score > 0 THEN {ranking.second_label} ELSE {}

\* the labels name no discipline twice, and a secondary label is one of the
\* disciplines that scored
SecondaryJustified(labels, scored) ==
    /\ labels.secondary # labels.primary
    /\ labels.secondary # "" => labels.secondary \in scored \ {labels.primary}

\* C14: the labels returned by classify_position, by the second-pass tier, by
\* the promoted-model tier and by sanitize_and_classify_positions have a
\* secondary discipline different from the primary one, and an empty one
\* unless a second discipline scored above zero (by keywords, or as the
\* runner-up of the tier that set the labels).
C14_SecondaryDiffersAndScored ==
    Classified =>
        LET position == pipe.position
            keywords == Scored(position.title_scores)
                        \cup Scored(position.full_scores)
            rule == keywords
                    \cup SecondScored(pipe.similarities,
                                      pipe.similarities.second_similarity)
            second == rule
                      \cup SecondScored(pipe.centroid_similarities,
                                        pipe.centroid_similarities
                                            .second_similarity)
            promoted == second
                        \cup SecondScored(pipe.probabilities,
                                          pipe.probabilities.second_conf)
        IN /\ SecondaryJustified(pipe.raw, rule)
           /\ SecondaryJustified(pipe.first, rule)
           /\ SecondaryJustified(pipe.after_secondary, second)
           /\ SecondaryJustified(pipe.after_promoted, promoted)
           /\ SecondaryJustified(pipe.final, promoted)

\* a posting without keywords that the promoted model labels Wildlife, with
\* Entomology as runner-up at the secondary threshold
C14_Witness ==
    /\ Classified
    /\ pipe.first = Labels("Other", "")
    /\ pipe.refinement_source = "promoted_model"
    /\ pipe.final = Labels("Wildlife", "Entomology")
    /\ pipe.probabilities.second_conf
           = promoted_model_secondary_min_confidence

-----------------------------------------------------------------------------
(* Claims on the promoted model of a classifier instance *)

\* files from which no model can be loaded
DefectiveModelFiles(files) ==
    \/ files.manifest \in {"missing", "corrupt", "no_artifact_path"}
    \/ files.artifact \in {"missing", "corrupt", "not_a_dict",
                           "no_vectorizer", "no_classifier"}

\* C18: an instance opens the manifest at most once; every call returns what
\* the first call returned, whatever the files have become since; no call
\* raises; a first call on a missing or corrupt manifest, a manifest without
\* artifact path, a missing or corrupt artifact or an artifact without
\* vectorizer or classifier returns no model; and with no model the promoted
\* tier leaves a label Other as it is.
C18_PromotedModelLoadedOnceAndCached ==
    loader.calls >= 1 =>
        /\ loader.manifest_reads <= 1
        /\ ~loader.first.raised
        /\ ~loader.last.raised
        /\ loader.last.model = loader.first.model
        /\ loader.instance.checked
        /\ loader.instance.model = loader.first.model
        /\ DefectiveModelFiles(Get(loader.first.files)) =>
              loader.first.model = None
        /\ loader.last.model = None => loader.refined = Labels("Other", "")

\* the first call met a manifest that is not JSON; the files were then
\* replaced by a promoted model, and a later call still returns no model
C18_Witness ==
    /\ loader.calls >= 2
    /\ loader.has_sklearn
    /\ Get(loader.first.files).manifest = "corrupt"
    /\ loader.files = [manifest |-> "promoted", artifact |-> "model_a"]
    /\ loader.last.files = Some(loader.files)
    /\ loader.last.model = None
    /\ loader.manifest_reads = 1
    /\ loader.refined = Labels("Other", "")

-----------------------------------------------------------------------------
(* Claims on a batch of postings *)

\* C19: no exception leaves sanitize_and_classify_positions because of one
\* posting: every graduate posting of the batch is among the rows returned,
\* whatever the other rows of the batch are.
C19_DefectivePostingDoesNotAbortBatch ==
    IsSome(batch.out) =>
        /\ ~Get(batch.out).raised
        /\ \A i \in DOMAIN batch.rows :
              batch.rows[i] = "graduate" =>
                  \E j \in DOMAIN Get(batch.out).returned :
                      Get(batch.out).returned[j] = i

-----------------------------------------------------------------------------
(* Claims on the end of a trainer run *)

\* the step with which a run of main returns
RunEnds == pc # "idle" /\ pc' = "idle"

-----------------------------------------------------------------------------
(* Claims on the manifest history *)

\* C21: after any number of trained runs the history holds at most
\* HistoryCap (100) events, and they are the most recent of all events ever
\* appended, in the order they were appended.
C21_HistoryIsTheLastHundredEvents ==
    LET history == ledger.manifest.history
        n == Len(history)
        total == Len(ledger.all)
    IN /\ n <= 100
       /\ n = Min(100, total)
       /\ \A i \in 1..n : history[i] = ledger.all[total - n + i]

\* two runs appended to a full history: the two oldest events are gone
C21_Witness ==
    /\ ledger.appends = 2
    /\ Len(ledger.all) = HistoryCap + 2
    /\ Len(ledger.manifest.history) = HistoryCap
    /\ ledger.manifest.history[HistoryCap].timestamp = 2
    /\ ledger.manifest.history[1] = ledger.all[3]

-----------------------------------------------------------------------------
(* Claims on the graduate decision *)

\* C22: is_graduate_position returns a confidence in [0, 1] (0..100
\* hundredths); a decision is_graduate = FALSE has confidence at most 0.3 and
\* the type "Professional/Other"; a decision is_graduate = TRUE never has
\* the type "Professional/Other".
C22_DecisionConfidenceAndTypeAgree ==
    IsSome(grad.out) =>
        LET d == Get(grad.out)
        IN /\ d.confidence \in 0..100
           /\ ~d.is_graduate =>
                 /\ d.confidence <= 30
                 /\ d.classification_type = "Professional/Other"
           /\ d.is_graduate => d.classification_type # "Professional/Other"

\* a posting with graduate evidence in its text that the full-text phase
\* decides is not a graduate position
C22_Witness ==
    /\ IsSome(grad.out)
    /\ ~Get(grad.out).is_graduate
    /\ ~IsSome(title_phase_decision(analyze_text(grad.position.title_text)))
    /\ analyze_text(FullText(grad.position)).classification_type # "unknown"
    /\ Get(grad.out).classification_type = "Professional/Other"

-----------------------------------------------------------------------------
(* Claims on the tiers of the discipline classifier *)

\* C23: a posting whose full text matches a hard non-graduate pattern and no
\* explicit-assistantship pattern is classified primary "Other" with an empty
\* secondary, whatever discipline keywords it has; the similarity refiner has
\* no part in it: the result is the same for every similarity outcome.
C23_HardNonGraduateIsOther ==
    (Classified /\ HardNonGrad(pipe.position)) =>
        /\ pipe.raw = Labels("Other", "")
        /\ \A ml \in MLSimilarities, enabled \in BOOLEAN :
              classify_position(pipe.position, ml, enabled)
                  = Labels("Other", "")

\* a hard non-graduate posting with a confident discipline title and a
\* similarity that reaches the override threshold
C23_Witness ==
    /\ Classified
    /\ HardNonGrad(pipe.position)
    /\ is_confident_title_match(pipe.position.title_scores)
    /\ pipe.has_sklearn
    /\ pipe.similarities.top_similarity >= ml_override_similarity
    /\ pipe.raw = Labels("Other", "")

\* the posting reached _maybe_refine_with_ml (classify_position, lines
\* 694-710)
ReachedRefiner ==
    /\ Classified
    /\ ~HardNonGrad(pipe.position)
    /\ ~is_confident_title_match(pipe.position.title_scores)

\* C24: the similarity refiner changes the rule result only when the rule
\* scores are ambiguous (no scores, top score <= 2, or top minus second <= 1);
\* when it runs on such scores, a best similarity below 0.12 or a best
\* category Other leaves the rule result; otherwise a rule primary Other
\* takes the similarity result; otherwise a differing similarity primary is
\* taken only at a similarity of 0.2 or more, and the rule result is kept
\* below it.
C24_RefinerActsOnlyOnAmbiguousRules ==
    ReachedRefiner =>
        LET rules == FullTextRules(pipe.position)
            ml == ml_classify_with_confidence(
                      pipe.similarities,
                      classify_from_scores(pipe.position.full_scores))
            ambiguous ==
                \/ Scored(rules.scores) = {}
                \/ TopScore(rules.scores) <= 2
                \/ TopScore(rules.scores) - SecondScore(rules.scores) <= 1
            ml_labels == Labels(ml.primary, ml.secondary)
        IN /\ pipe.raw # rules.labels => ambiguous
           /\ (pipe.has_sklearn /\ ambiguous) =>
                 IF ml.confidence < 12 \/ ml.primary = "Other"
                 THEN pipe.raw = rules.labels
                 ELSE IF rules.labels.primary = "Other"
                 THEN pipe.raw = ml_labels
                 ELSE ml.primary # rules.labels.primary =>
                         IF ml.confidence >= 20 THEN pipe.raw = ml_labels
                         ELSE pipe.raw = rules.labels

\* an ambiguous rule label other than Other that a differing similarity
\* below the override threshold does not replace
C24_Witness ==
    /\ ReachedRefiner
    /\ pipe.has_sklearn
    /\ is_ambiguous_scores(FullTextRules(pipe.position).scores)
    /\ FullTextRules(pipe.position).labels.primary = "Wildlife"
    /\ pipe.similarities.top_label = "Entomology"
    /\ pipe.similarities.top_similarity >= ml_min_similarity
    /\ pipe.similarities.top_similarity < ml_override_similarity
    /\ pipe.raw.primary = "Wildlife"

\* the conditions under which the promoted-model tier may relabel
PromotedTierConditions ==
    /\ pipe.after_secondary.primary = "Other"
    /\ pipe.probabilities.available
    /\ pipe.probabilities.top_label # "Other"
    /\ pipe.probabilities.top_conf >= 62
    /\ pipe.probabilities.top_conf - pipe.probabilities.second_conf >= 8

\* C25: the promoted-model tier changes the labels of a posting only if the
\* label it receives is Other, the model is available, the model's top class
\* is not Other, the top confidence is at least 0.62 and the margin over the
\* second class at least 0.08; in every other case primary and secondary
\* leave the tier as they entered it.
C25_PromotedTierRelabelsOnlyUnderItsGates ==
    Classified =>
        /\ pipe.after_promoted # pipe.after_secondary
              => PromotedTierConditions
        /\ ~PromotedTierConditions
              => pipe.after_promoted = pipe.after_secondary

\* a posting labelled Other whose prediction is confident but too close to
\* the second class, and one that is relabelled
C25_Witness ==
    /\ Classified
    /\ pipe.has_sklearn
    /\ pipe.after_secondary.primary = "Other"
    /\ pipe.probabilities.available
    /\ pipe.probabilities.top_label = "Wildlife"
    /\ pipe.probabilities.top_conf >= promoted_model_min_confidence
    /\ pipe.probabilities.top_conf - pipe.probabilities.second_conf
          < promoted_model_min_margin
    /\ pipe.after_promoted.primary = "Other"

\* the labels of the rule tier alone: classify_position without the refiner
RuleTierLabels(position) ==
    IF HardNonGrad(position) THEN Labels("Other", "")
    ELSE IF is_confident_title_match(position.title_scores)
    THEN classify_from_scores(position.title_scores)
    ELSE FullTextRules(position).labels

\* the tier whose decision is the final primary discipline
DecidingTier ==
    IF pipe.final.primary # pipe.after_secondary.primary
    THEN "promoted_model"
    ELSE IF pipe.after_secondary.primary # pipe.first.primary
    THEN "secondary_ml"
    ELSE IF pipe.raw.primary # RuleTierLabels(pipe.position).primary
    THEN "similarity"
    ELSE "rule"

\* C26: the discipline_refinement_source of every output posting names the
\* tier (rule, similarity, secondary model, promoted model) whose decision
\* is the posting's final primary discipline.
C26_SourceNamesTheDecidingTier ==
    Classified => pipe.refinement_source = DecidingTier

-----------------------------------------------------------------------------
(* Claims on classifying a batch again *)

\* C27: a batch classified a second time with the manifest and the promoted
\* artifact unchanged gives every posting the graduate decision, confidence,
\* primary and secondary discipline and provenance of the first time, on the
\* classifier instance of the first run (with its cached model) as on a new
\* one.
C27_SecondRunRepeatsTheFirst ==
    rerun.runs = 2 => rerun.second = rerun.first

\* the second run reuses an instance that holds the promoted model, and the
\* promoted model labels the posting
C27_Witness ==
    /\ rerun.runs = 2
    /\ rerun.reused
    /\ IsSome(rerun.instance.model)
    /\ IsSome(rerun.second[1])
    /\ Get(rerun.second[1]).discipline_refinement_source = "promoted_model"

\* the second run on a new instance drops the posting as the first did
C27_WitnessFreshInstance ==
    /\ rerun.runs = 2
    /\ ~rerun.reused
    /\ rerun.second = <<None>>

-----------------------------------------------------------------------------
(* Claims on the evaluation of a candidate *)

\* the gold set passed the gate: >= 8 rows, >= 2 classes, every class >= 2
PassedGate ==
    /\ IsSome(evaluation.out)
    /\ Get(evaluation.out).trainable
    /\ MinClassCount(Get(evaluation.out).counts) >= 2

\* C28: for every gold set that passes the gate the chosen strategy can be
\* carried out: holdout is chosen exactly when there are >= 12 rows, and its
\* validation part (25%) and its training part each have at least as many
\* rows as there are classes; otherwise cross-validation is chosen with
\* k = max(2, min(5, smallest class count)) folds and 2 <= k <= smallest
\* class count.
C28_ChosenEvaluationCanBeCarriedOut ==
    PassedGate =>
        LET out == Get(evaluation.out)
            n == GoldTotal(out.counts)
            classes == Cardinality(GoldCounterClasses(out.counts))
            smallest == MinClassCount(out.counts)
        IN /\ out.result.mode = "holdout" <=> n >= 12
           /\ out.result.mode = "holdout" =>
                 /\ out.result.validation_rows >= classes
                 /\ out.result.training_rows >= classes
           /\ out.result.mode # "holdout" =>
                 /\ out.result.mode = "cross_validation"
                 /\ out.result.folds = Max(2, Min(5, smallest))
                 /\ 2 <= out.result.folds
                 /\ out.result.folds <= smallest
           /\ ~out.result.raised

-----------------------------------------------------------------------------
(* Claims on the order of the writes of a trainer run *)

\* C29: at every point of every training run, between its steps too, a
\* promoted pointer in the manifest file names an artifact that exists and
\* was written no later than the manifest was: the run that wrote the
\* artifact is not later than the run that last wrote the manifest.
C29_PromotedArtifactWrittenBeforeManifest ==
    IsSome(manifest.promoted) =>
        LET artifact == artifacts[Get(manifest.promoted).artifact_path]
        IN /\ IsSome(artifact)
           /\ Get(artifact).trained_at
                 <= manifest.history[Len(manifest.history)].timestamp

-----------------------------------------------------------------------------
(* Claims on the reason codes of the confidence queue *)

ReasonSet(item) == {item.reasons[i] : i \in DOMAIN item.reasons}

\* the reason codes a builder gives a row: empty when the row has no item
DashboardReasons(row) ==
    LET item == dashboard_queue_item(row, queue.model_available)
    IN IF IsSome(item) THEN ReasonSet(Get(item)) ELSE {}

TrainerReasons(row) ==
    LET item == trainer_queue_item(row, queue.model_available)
    IN IF IsSome(item) THEN ReasonSet(Get(item)) ELSE {}

\* the queue holds one item for each row that has a reason, and no other
HoldsTheRowsWithReasons(built, rows, Reasons(_)) ==
    /\ Len(built)
          = Cardinality({i \in DOMAIN rows : Reasons(rows[i]) # {}})
    /\ \A i \in DOMAIN rows :
          Reasons(rows[i]) # {} <=>
              \E j \in DOMAIN built :
                 /\ ItemIdentity(built[j]) = rows[i].identity
                 /\ ReasonSet(built[j]) = Reasons(rows[i])

\* what the reason codes of one item say about its posting
ReasonsAsSpecified(item) ==
    LET reasons == ReasonSet(item)
        second == reasons \cap {"no_promoted_model", "suggested_relabel",
                                "still_other_low_signal"}
    IN /\ reasons # {}
       /\ item.discipline_final = "Other" =>
             /\ "final_other" \in reasons
             /\ Cardinality(second) = 1
             /\ "no_promoted_model" \in second <=> ~queue.model_available
       /\ "model_rule_disagreement" \in reasons =>
             /\ item.discipline_final # "Other"
             /\ queue.model_available

\* C30: a posting is in the confidence queue exactly when it has at least
\* one reason code; a posting whose final discipline is Other has final_other
\* and exactly one of no_promoted_model (no model), suggested_relabel or
\* still_other_low_signal (model available); model_rule_disagreement is only
\* on postings whose final discipline is not Other and only with a model;
\* and both builders give a posting the same set of reason codes.
C30_ReasonCodesOfBothBuilders ==
    /\ IsSome(queue.dashboard) =>
          /\ HoldsTheRowsWithReasons(Get(queue.dashboard), queue.rows,
                                     DashboardReasons)
          /\ \A j \in DOMAIN Get(queue.dashboard) :
                ReasonsAsSpecified(Get(queue.dashboard)[j])
    /\ IsSome(queue.trainer) =>
          /\ HoldsTheRowsWithReasons(Get(queue.trainer), queue.rows,
                                     TrainerReasons)
          /\ \A j \in DOMAIN Get(queue.trainer) :
                ReasonsAsSpecified(Get(queue.trainer)[j])
    /\ (IsSome(queue.dashboard) /\ IsSome(queue.trainer)) =>
          \A i \in DOMAIN queue.rows :
             DashboardReasons(queue.rows[i]) = TrainerReasons(queue.rows[i])

\* both queues are built with a model: one posting labelled Other without a
\* confident suggestion, one whose label the model contradicts
C30_Witness ==
    /\ IsSome(queue.dashboard)
    /\ IsSome(queue.trainer)
    /\ queue.model_available
    /\ Len(queue.rows) = 2
    /\ DashboardReasons(queue.rows[1])
          = {"final_other", "still_other_low_signal"}
    /\ TrainerReasons(queue.rows[2]) = {"model_rule_disagreement"}
    /\ Len(Get(queue.dashboard)) = 2
    /\ Len(Get(queue.trainer)) = 2

====
